---- MODULE Spec2Model ----
(***************************************************************************)
(* Whimsy random chat: matchmaking, session lifecycle and message relay.   *)
(*                                                                         *)
(* The repository carries two server-side registries of chat rooms:        *)
(*   - the in-memory registry (lib/store.ts and the route handlers that    *)
(*     work on waitingRooms / activeRooms / messages), modelled by the     *)
(*     Mem* definitions and the specification SpecMem;                     *)
(*   - the Supabase registry (tables chat_rooms, chat_participants,        *)
(*     chat_messages, the RPC find_available_room and the route handlers   *)
(*     that call it), modelled by the Sql* and Rpc* definitions and the    *)
(*     specifications SpecSql, SpecSqlStarts, SpecSqlFault, SpecSqlChat    *)
(*     and SpecSqlV1.                                                      *)
(*                                                                         *)
(* The in-memory route handlers declare waitingRooms, activeRooms and      *)
(* messages as ambient globals; the model binds them to the arrays of      *)
(* lib/store.ts.  The tables are modelled with their column types and      *)
(* foreign keys.  Of the row-level security policies the one the message   *)
(* route answers for (INSERT on chat_messages) is modelled, with           *)
(* auth.uid() the request's user; the other statements see and change the  *)
(* rows they name.                                                         *)
(***************************************************************************)
EXTENDS Naturals, Integers, Sequences, FiniteSets, TLC

\* ------------------------------------------------------------------ bounds
MaxUsers == 3
MaxRooms == 3
MaxMsgs == 2
MaxMemMsgs == 4
MaxMemPosts == 1
MaxMemPending == 1
MaxMemRooms == 2
MaxSocks == 3
MaxTextLen == 1
MaxCalls == 3
MaxConcurrent == 2
\* envelopes one endpoint sends in a session
MaxSignals == 4
\* messages of the partner, messages of the client's own, and the latest
\* reading of the browser's clock, in one chat window
MaxClientMsgs == 3
MaxLocalMsgs == 2
MaxStamp == 3
\* sockets one socket client creates
MaxConnects == 3
\* API calls one Supabase client awaits at a time, and participant-change
\* listeners that await their count
MaxAwaited == 2
MaxListeners == 1

Users == 1..MaxUsers
RoomIds == 1..MaxRooms
MemRoomIds == 1..MaxMemRooms
\* JavaScript null / SQL NULL for a user id or a room id
NoUser == 0
NoRoom == 0
\* the reserved sender of system messages ('system'): a value that is no
\* user's id
SystemSender == MaxUsers + 1
\* socket ids; JavaScript null / undefined for a socket id
Socks == 1..MaxSocks
NoSock == 0

\* message texts are sequences over this alphabet; " " is whitespace
Chars == {"a", " "}
RECURSIVE SeqsUpTo(_, _)
SeqsUpTo(S, n) ==
    IF n = 0 THEN {<<>>}
    ELSE LET shorter == SeqsUpTo(S, n - 1)
         IN shorter \cup {Append(s, c) : s \in {t \in shorter : Len(t) = n - 1}, c \in S}
Texts == SeqsUpTo(Chars, MaxTextLen)

\* String.prototype.trim: strip leading and trailing whitespace
RECURSIVE TrimLeft(_)
TrimLeft(s) == IF s # <<>> /\ Head(s) = " " THEN TrimLeft(Tail(s)) ELSE s
RECURSIVE TrimRight(_)
TrimRight(s) ==
    IF s # <<>> /\ s[Len(s)] = " " THEN TrimRight(SubSeq(s, 1, Len(s) - 1)) ELSE s
Trim(s) == TrimRight(TrimLeft(s))

\* ------------------------------------------------------- sequence helpers
\* Array.prototype.includes
Includes(s, x) == \E i \in DOMAIN s : s[i] = x
\* Array.prototype.indexOf, 1-based; 0 stands for -1
IndexOf(s, x) ==
    IF Includes(s, x) THEN CHOOSE i \in DOMAIN s : s[i] = x /\ \A j \in 1..(i - 1) : s[j] # x
    ELSE 0
\* Array.prototype.splice(i, 1)
RemoveAt(s, i) == SubSeq(s, 1, i - 1) \o SubSeq(s, i + 1, Len(s))
\* first element of s other than x (participants.find(id => id !== x)), or NoUser
FirstOther(s, x) ==
    IF \E i \in DOMAIN s : s[i] # x
    THEN s[CHOOSE i \in DOMAIN s : s[i] # x /\ \A j \in 1..(i - 1) : s[j] = x]
    ELSE NoUser

VARIABLES
    \* in-memory registry (lib/store.ts)
    waitingRooms,   \* Room[]: sequence of [id, participants]
    activeRooms,    \* Room[]
    messages,       \* Record<roomId, Message[]>: function on the keys present
    memNextId,      \* next fresh room id (Math.random ids never repeat)
    memPending,     \* the /next requests between their two awaits: the user and
                    \* the room removeUserFromRoom took the user out of, if any
    memResp,        \* the last response a handler of the registry returned
    \* Supabase registry (supabase/migrations/0000_create_schema.sql)
    chat_rooms,         \* ids of the rows of chat_rooms
    chat_participants,  \* [room_id -> [user_id -> number of rows]]
    chat_messages,      \* [room_id -> sequence of the room's rows, oldest first]
    sqlNextRoom,        \* next fresh room id (uuid_generate_v4 never repeats)
    calls,              \* the requests in flight, one record per slot
    sqlResp,            \* the last HTTP response of a route handler
    sqlPrev,            \* the HTTP response before it
    \* socket.io server (backend/server.js)
    sockPc,         \* where each connection's handler of 'connection' stands
    sockAlive,      \* the connection's transport is open
    redisQueue,     \* the Redis commands sent and not yet answered, oldest first
    WAITING_LIST,   \* the Redis list of waiting socket ids, head first
    userPartners,   \* Map socket id -> partner socket id, NoSock when absent
    sockOut,        \* the events the last step emitted
    sockLast,       \* the last step: the event handled and its arguments
    \* browser (hooks): one endpoint of a video call and its chat window
    rtcImpl,        \* which copy of receivedSignal the endpoint runs
    rtcSent,        \* the envelopes the partner has sent, in send order
    rtcWire,        \* envelopes on their way to the server, oldest first
    rtcInbox,       \* envelopes the server emitted to the endpoint, not yet handled
    rtcSeen,        \* the envelopes handed to the endpoint's 'signal' listener
    rtcPeer,        \* the endpoint: peer connection, local stream, queue
    clientMessages, \* the messages state of useChat: sequence of [id, timestamp]
    clientNow,      \* Date.now() of the browser
    clientHistory,  \* whether a duplicated and an out-of-order delivery were seen
    \* browser (hooks/useChatManager.ts): the socket client
    chatManager,    \* status, partnerId, socketRef; the status the listeners of
                    \* the socket closed over; the delayed connect calls
    cmLast,         \* the last call or event of the hook, and the status before it
    \* browser (part_002, hooks/useChatRealtime.ts): the Supabase client
    useChat         \* status, roomId, partnerId; the API calls awaited; the
                    \* participant-change listeners that await their count

memVars == <<waitingRooms, activeRooms, messages, memNextId, memPending, memResp>>
sqlVars == <<chat_rooms, chat_participants, chat_messages, sqlNextRoom, calls, sqlResp, sqlPrev>>
sockVars == <<sockPc, sockAlive, redisQueue, WAITING_LIST, userPartners, sockOut, sockLast>>
cliVars == <<rtcImpl, rtcSent, rtcWire, rtcInbox, rtcSeen, rtcPeer, clientMessages, clientNow, clientHistory>>
hookVars == <<chatManager, cmLast, useChat>>
vars == <<memVars, sqlVars, sockVars, cliVars, hookVars>>

\* the longest text the 'message' handler of the socket.io server relays
\* (text.length > 1000), a text one character longer, and the texts a client
\* sends
MaxMessageLength == 1000
Oversized == [i \in 1..(MaxMessageLength + 1) |-> "a"]
SockTexts == Texts \cup {Oversized}

\* the sum of f over the finite set S
RECURSIVE SumOver(_, _)
SumOver(f, S) ==
    IF S = {} THEN 0
    ELSE LET x == CHOOSE y \in S : TRUE IN f[x] + SumOver(f, S \ {x})

\* ============================================================ in-memory
\* index of the first room of rooms with the given id, 0 if none (findIndex)
MemRoomIndex(rooms, roomId) ==
    IF \E i \in DOMAIN rooms : rooms[i].id = roomId
    THEN CHOOSE i \in DOMAIN rooms :
            rooms[i].id = roomId /\ \A j \in 1..(i - 1) : rooms[j].id # roomId
    ELSE 0

\* index of the first room of rooms that holds userId, 0 if none (find)
MemUserRoomIndex(rooms, userId) ==
    IF \E i \in DOMAIN rooms : Includes(rooms[i].participants, userId)
    THEN CHOOSE i \in DOMAIN rooms :
            /\ Includes(rooms[i].participants, userId)
            /\ \A j \in 1..(i - 1) : ~Includes(rooms[j].participants, userId)
    ELSE 0

\* waitingRooms.find(room => room.participants.length < 2), as an index
MemAvailableIndex(rooms) ==
    IF \E i \in DOMAIN rooms : Len(rooms[i].participants) < 2
    THEN CHOOSE i \in DOMAIN rooms :
            /\ Len(rooms[i].participants) < 2
            /\ \A j \in 1..(i - 1) : ~(Len(rooms[j].participants) < 2)
    ELSE 0

\* the lookup of the room dropped: every user counts as a participant
isUserInRoomAnyRoom(roomId, userId) == TRUE

\* the participants of the room not looked at: any user passes for a room
\* that is in one of the lists
isUserInRoomListed(roomId, userId) ==
    MemRoomIndex(activeRooms, roomId) # 0 \/ MemRoomIndex(waitingRooms, roomId) # 0

\* isUserInRoom: the room is looked up in activeRooms first, then waitingRooms
isUserInRoom(roomId, userId) ==
    LET ai == MemRoomIndex(activeRooms, roomId)
        wi == MemRoomIndex(waitingRooms, roomId)
    IN IF ai # 0 THEN Includes(activeRooms[ai].participants, userId)
       ELSE IF wi # 0 THEN Includes(waitingRooms[wi].participants, userId)
       ELSE FALSE

MemSysMsg(text) == [senderId |-> SystemSender, text |-> text, isSystem |-> TRUE]

\* messages[roomId].push(m), creating the array when the key is absent
MemPush(msgs, roomId, m) ==
    IF roomId \in DOMAIN msgs
    THEN [msgs EXCEPT ![roomId] = Append(@, m)]
    ELSE [k \in DOMAIN msgs \cup {roomId} |-> IF k = roomId THEN <<m>> ELSE msgs[k]]

\* every key deleted, not only roomId
MemDeleteAll(msgs, roomId) == [k \in {} |-> <<>>]

\* delete messages[roomId]
MemDelete(msgs, roomId) == [k \in DOMAIN msgs \ {roomId} |-> msgs[k]]

\* removeUserFromRoom of the in-memory registry: the registry after the call
\* and the boolean it returns
MemRemoveWaiting(roomId, userId, wi) ==
    LET room == waitingRooms[wi]
        left == RemoveAt(room.participants, IndexOf(room.participants, userId))
    IN IF Len(left) = 0
       THEN [w |-> RemoveAt(waitingRooms, wi), a |-> activeRooms,
             m |-> MemDelete(messages, roomId), ok |-> TRUE]
       ELSE [w |-> [waitingRooms EXCEPT ![wi].participants = left], a |-> activeRooms,
             m |-> messages, ok |-> TRUE]

\* the room is left in activeRooms whatever number of participants remains
MemRemoveActiveKeep(roomId, userId, ai) ==
    LET room == activeRooms[ai]
        left == RemoveAt(room.participants, IndexOf(room.participants, userId))
    IN [w |-> waitingRooms, a |-> [activeRooms EXCEPT ![ai].participants = left],
        m |-> messages, ok |-> TRUE]

MemRemoveActive(roomId, userId, ai) ==
    LET room == activeRooms[ai]
        left == RemoveAt(room.participants, IndexOf(room.participants, userId))
    IN IF Len(left) = 1
       THEN [w |-> Append(waitingRooms, [room EXCEPT !.participants = left]),
             a |-> RemoveAt(activeRooms, ai),
             m |-> IF roomId \in DOMAIN messages
                   THEN MemPush(messages, roomId, MemSysMsg("partner-left"))
                   ELSE messages,
             ok |-> TRUE]
       ELSE IF Len(left) = 0
       THEN [w |-> waitingRooms, a |-> RemoveAt(activeRooms, ai),
             m |-> MemDelete(messages, roomId), ok |-> TRUE]
       ELSE [w |-> waitingRooms, a |-> [activeRooms EXCEPT ![ai].participants = left],
             m |-> messages, ok |-> TRUE]

removeUserFromRoom(roomId, userId) ==
    LET wi == MemRoomIndex(waitingRooms, roomId)
        ai == MemRoomIndex(activeRooms, roomId)
    IN IF wi # 0 /\ Includes(waitingRooms[wi].participants, userId)
       THEN MemRemoveWaiting(roomId, userId, wi)
       ELSE IF ai # 0 /\ Includes(activeRooms[ai].participants, userId)
       THEN MemRemoveActive(roomId, userId, ai)
       ELSE [w |-> waitingRooms, a |-> activeRooms, m |-> messages, ok |-> FALSE]

\* findOrCreateRoomForUser of the in-memory registry: the registry after the
\* call, the id counter and the object it returns
MemExisting(userId) ==
    LET wi == MemUserRoomIndex(waitingRooms, userId)
        ai == MemUserRoomIndex(activeRooms, userId)
        room == IF wi # 0 THEN waitingRooms[wi] ELSE activeRooms[ai]
        other == FirstOther(room.participants, userId)
    IN [w |-> waitingRooms, a |-> activeRooms, m |-> messages, n |-> memNextId,
        ret |-> [roomId |-> room.id, partnerId |-> other,
                 status |-> IF other # NoUser THEN "chatting" ELSE "searching"]]

MemJoin(userId, wi) ==
    LET room == [waitingRooms[wi] EXCEPT !.participants = Append(@, userId)]
    IN [w |-> RemoveAt(waitingRooms, wi), a |-> Append(activeRooms, room),
        m |-> MemPush(messages, room.id, MemSysMsg("joined")), n |-> memNextId,
        ret |-> [roomId |-> room.id, partnerId |-> FirstOther(room.participants, userId),
                 status |-> "chatting"]]

MemCreate(userId) ==
    LET room == [id |-> memNextId, participants |-> <<userId>>]
    IN [w |-> Append(waitingRooms, room), a |-> activeRooms,
        m |-> MemPush(messages, room.id, MemSysMsg("waiting")), n |-> memNextId + 1,
        ret |-> [roomId |-> room.id, partnerId |-> NoUser, status |-> "searching"]]

findOrCreateRoomForUser(userId) ==
    IF MemUserRoomIndex(waitingRooms, userId) # 0 \/ MemUserRoomIndex(activeRooms, userId) # 0
    THEN MemExisting(userId)
    ELSE IF MemAvailableIndex(waitingRooms) # 0
    THEN MemJoin(userId, MemAvailableIndex(waitingRooms))
    ELSE MemCreate(userId)

\* the model's bounds: a fresh room id is left, and no message array outgrows MaxMemMsgs
MemWithinBounds(r) ==
    /\ r.n <= MaxMemRooms + 1
    /\ \A k \in DOMAIN r.m : Len(r.m[k]) <= MaxMemMsgs

\* POST /api/chat/start, and POST /api/chat/next without a currentRoomId
MemStart(u) ==
    LET r == findOrCreateRoomForUser(u)
    IN /\ MemWithinBounds(r)
       /\ waitingRooms' = r.w
       /\ activeRooms' = r.a
       /\ messages' = r.m
       /\ memNextId' = r.n
       /\ memResp' = [op |-> "start", user |-> u, code |-> 200, roomId |-> r.ret.roomId,
                      partnerId |-> r.ret.partnerId, status |-> r.ret.status,
                      from |-> NoRoom]
       /\ UNCHANGED memPending

\* POST /api/chat/next with a currentRoomId, first await: removeUserFromRoom
MemNextLeave(u, roomId) ==
    LET r == removeUserFromRoom(roomId, u)
    IN /\ \A p \in memPending : p.user # u
       /\ Cardinality(memPending) < MaxMemPending
       /\ \A k \in DOMAIN r.m : Len(r.m[k]) <= MaxMemMsgs
       /\ waitingRooms' = r.w
       /\ activeRooms' = r.a
       /\ messages' = r.m
       /\ memPending' = memPending \cup {[user |-> u, from |-> IF r.ok THEN roomId ELSE NoRoom]}
       /\ UNCHANGED <<memNextId, memResp>>

\* POST /api/chat/next, second await: findOrCreateRoomForUser and the response
MemNextFind(u) ==
    LET r == findOrCreateRoomForUser(u)
    IN \E p \in memPending :
       /\ p.user = u
       /\ MemWithinBounds(r)
       /\ waitingRooms' = r.w
       /\ activeRooms' = r.a
       /\ messages' = r.m
       /\ memNextId' = r.n
       /\ memPending' = memPending \ {p}
       /\ memResp' = [op |-> "next", user |-> u, code |-> 200, roomId |-> r.ret.roomId,
                      partnerId |-> r.ret.partnerId, status |-> r.ret.status,
                      from |-> p.from]

\* POST /api/chat/leave: 200 whether or not the user was found in the room
MemLeave(u, roomId) ==
    LET r == removeUserFromRoom(roomId, u)
    IN /\ \A k \in DOMAIN r.m : Len(r.m[k]) <= MaxMemMsgs
       /\ waitingRooms' = r.w
       /\ activeRooms' = r.a
       /\ messages' = r.m
       /\ memResp' = [op |-> "leave", user |-> u, code |-> 200, roomId |-> roomId,
                      partnerId |-> NoUser, status |-> IF r.ok THEN "left" ELSE "processed",
                      from |-> NoRoom]
       /\ UNCHANGED <<memNextId, memPending>>

\* the number of stored messages that users posted
MemPostCount ==
    SumOver([k \in DOMAIN messages |->
               Cardinality({i \in DOMAIN messages[k] : ~messages[k][i].isSystem})],
            DOMAIN messages)

\* POST /api/chat/message: 400 on empty text, 403 for a non-participant
MemPostMessage(u, roomId, text) ==
    LET code == IF Len(text) = 0 \/ Len(Trim(text)) = 0 THEN 400
                ELSE IF ~isUserInRoom(roomId, u) THEN 403
                ELSE 200
        m == [senderId |-> u, text |-> Trim(text), isSystem |-> FALSE]
    IN /\ code = 200 => /\ roomId \in DOMAIN messages => Len(messages[roomId]) < MaxMemMsgs
                        /\ MemPostCount < MaxMemPosts
       /\ messages' = IF code = 200 THEN MemPush(messages, roomId, m) ELSE messages
       /\ memResp' = [op |-> "message", user |-> u, code |-> code, roomId |-> roomId,
                      partnerId |-> NoUser, status |-> "message",
                      from |-> NoRoom]
       /\ UNCHANGED <<waitingRooms, activeRooms, memNextId, memPending>>

MemNoResp ==
    [op |-> "none", user |-> NoUser, code |-> 0, roomId |-> NoRoom, partnerId |-> NoUser,
     status |-> "none", from |-> NoRoom]

\* ============================================================= Supabase
Calls == 1..MaxCalls
NoRow == <<NoRoom, NoUser>>
NoResult == [room_id |-> NoRoom, other_user_id |-> NoUser]

IdleCall ==
    [op |-> "idle", via |-> "start", pc |-> "idle", user |-> NoUser, room |-> NoRoom,
     cand |-> {}, found |-> NoRow, res |-> NoResult, failed |-> FALSE, alone |-> FALSE,
     noWaiting |-> FALSE, wasIn |-> {}, preParts |-> <<>>, preMsgs |-> <<>>]

SqlNoResp ==
    [op |-> "none", user |-> NoUser, code |-> 0, roomId |-> NoRoom, partnerId |-> NoUser,
     status |-> "none", alone |-> FALSE, noWaiting |-> FALSE, wasIn |-> {},
     sameParts |-> FALSE, sameMsgs |-> FALSE, failed |-> FALSE,
     from |-> NoRoom, pre |-> <<>>]

InFlight == {c \in Calls : calls[c].op # "idle"}

\* SELECT COUNT(id) FROM chat_participants WHERE room_id = r
SqlCount(parts, r) == SumOver(parts[r], Users)

\* the rows of chat_rooms and of chat_participants
SqlOccupancy == <<chat_rooms, chat_participants>>

\* the rooms user u has a participant row in
SqlRoomsOf(parts, u) == {r \in RoomIds : parts[r][u] > 0}

\* the rows the SELECT of find_available_room sees in its statement snapshot:
\* chat_participants JOIN chat_rooms, the room has exactly one participant row,
\* and the row is not the requesting user's
\* the comparison with the requesting user inverted
SqlCandidatesOwnRows(requesting_user_id) ==
    {x \in RoomIds \X Users :
        /\ x[1] \in chat_rooms
        /\ chat_participants[x[1]][x[2]] > 0
        /\ SqlCount(chat_participants, x[1]) = 1
        /\ x[2] = requesting_user_id}

SqlCandidates(requesting_user_id) ==
    {x \in RoomIds \X Users :
        /\ x[1] \in chat_rooms
        /\ chat_participants[x[1]][x[2]] > 0
        /\ SqlCount(chat_participants, x[1]) = 1
        /\ x[2] # requesting_user_id}

\* rows locked FOR UPDATE by a transaction that has not committed yet; the
\* lock covers the chat_participants row and its chat_rooms row
SqlLockedBy(c) == IF calls[c].pc = "locked" THEN {calls[c].found} \ {NoRow} ELSE {}
SqlLockedRows == UNION {SqlLockedBy(c) : c \in Calls}
\* no lock is taken notice of
SqlNoLockedRooms == {}
SqlLockedRooms == {x[1] : x \in SqlLockedRows}

\* chat_messages.sender_id is UUID NOT NULL: the user ids are UUIDs, the
\* reserved sender 'system' is not one
IsUuid(x) == x \in Users

\* policy "Allow participants to insert messages into their room": sender_id
\* is auth.uid(), the request's user (never the reserved sender), and that
\* user holds a participant row of the room
SqlMayInsertMessage(room_id, sender_id) ==
    /\ sender_id \in Users
    /\ chat_participants[room_id][sender_id] > 0

\* neither the column type of sender_id nor the policy checked
SqlInsertMessageAnySender(msgs, room_id, sender_id, text, is_system) ==
    IF room_id \in chat_rooms
    THEN [msgs EXCEPT ![room_id] =
            Append(@, [sender_id |-> sender_id, message |-> text, is_system |-> is_system])]
    ELSE msgs

\* INSERT INTO chat_messages: the row is stored when the room exists (foreign
\* key), sender_id is a UUID and the policy admits the row; otherwise the
\* statement fails and stores nothing, and the handlers that post system
\* messages ignore the error
SqlInsertMessage(msgs, room_id, sender_id, text, is_system) ==
    IF room_id \in chat_rooms /\ IsUuid(sender_id) /\ SqlMayInsertMessage(room_id, sender_id)
    THEN [msgs EXCEPT ![room_id] =
            Append(@, [sender_id |-> sender_id, message |-> text, is_system |-> is_system])]
    ELSE msgs

\* the number of rows of chat_messages
SqlMessageCount == SumOver([r \in RoomIds |-> Len(chat_messages[r])], RoomIds)

\* a new request takes the lowest free slot
FreeSlot(c) == calls[c].op = "idle" /\ \A d \in 1..(c - 1) : calls[d].op # "idle"

\* the requests already in flight overlap the one that begins (or the
\* single-statement request that runs) now
Overlapped ==
    [c \in Calls |->
        IF calls[c].op = "idle" THEN calls[c]
        ELSE [calls[c] EXCEPT !.alone = FALSE, !.noWaiting = FALSE, !.wasIn = {},
                              !.preParts = <<>>, !.preMsgs = <<>>]]

SqlNoWaiting == ~\E r \in chat_rooms : SqlCount(chat_participants, r) = 1

\* ---- POST /api/chat/start: the request arrives and calls the RPC
SqlStartBeginUpTo(c, u, limit) ==
    /\ FreeSlot(c)
    /\ Cardinality(InFlight) < limit
    /\ sqlNextRoom + Cardinality({d \in Calls : calls[d].op = "start"}) <= MaxRooms
    /\ calls' = [Overlapped EXCEPT ![c] =
                    [IdleCall EXCEPT !.op = "start", !.pc = "select", !.user = u,
                                     !.alone = (InFlight = {}),
                                     !.noWaiting = (InFlight = {} /\ SqlNoWaiting),
                                     !.wasIn = IF InFlight = {}
                                               THEN SqlRoomsOf(chat_participants, u) ELSE {},
                                     !.preParts = IF InFlight = {}
                                                  THEN SqlOccupancy ELSE <<>>]]
    /\ UNCHANGED <<chat_rooms, chat_participants, chat_messages, sqlNextRoom, sqlResp, sqlPrev>>

SqlStartBegin(c, u) == SqlStartBeginUpTo(c, u, MaxConcurrent)

\* a start by a user who has no participant row and no request in flight
SqlFirstStart(c, u) ==
    /\ SqlRoomsOf(chat_participants, u) = {}
    /\ \A d \in Calls : calls[d].user # u
    /\ SqlStartBeginUpTo(c, u, MaxCalls)

\* ---- find_available_room, step 1: the SELECT takes its snapshot (READ
\* COMMITTED: rows inserted by transactions still in progress are not seen)
RpcSelect(c) ==
    /\ calls[c].op = "start" /\ calls[c].pc = "select"
    /\ calls' = [calls EXCEPT ![c].pc = "lockrows", ![c].cand = SqlCandidates(calls[c].user)]
    /\ UNCHANGED <<chat_rooms, chat_participants, chat_messages, sqlNextRoom, sqlResp, sqlPrev>>

\* ---- step 1, FOR UPDATE SKIP LOCKED LIMIT 1: the rows of the snapshot are
\* locked as they are fetched; a row locked by a transaction in progress is
\* skipped, a row deleted since the snapshot is gone, and a row whose locker
\* has committed is locked and returned without its room being counted again
RpcLockRows(c) ==
    /\ calls[c].op = "start" /\ calls[c].pc = "lockrows"
    /\ LET lockable == {x \in calls[c].cand : x[1] \notin SqlLockedRooms}
       IN IF lockable = {}
          THEN calls' = [calls EXCEPT ![c].pc = "locked", ![c].found = NoRow, ![c].cand = {}]
          ELSE \E x \in lockable :
                 calls' = [calls EXCEPT ![c].pc = "locked", ![c].found = x, ![c].cand = {}]
    /\ UNCHANGED <<chat_rooms, chat_participants, chat_messages, sqlNextRoom, sqlResp, sqlPrev>>

\* ---- steps 2 and 3 and the commit: join the locked room, or create a room
RpcCommit(c) ==
    /\ calls[c].op = "start" /\ calls[c].pc = "locked"
    /\ LET u == calls[c].user
           x == calls[c].found
       IN IF x # NoRow
          THEN /\ chat_participants' = [chat_participants EXCEPT ![x[1]][u] = @ + 1]
               /\ calls' = [calls EXCEPT ![c].pc = "respond",
                                         ![c].res = [room_id |-> x[1], other_user_id |-> x[2]]]
               /\ UNCHANGED <<chat_rooms, sqlNextRoom>>
          ELSE /\ chat_rooms' = chat_rooms \cup {sqlNextRoom}
               /\ chat_participants' = [chat_participants EXCEPT ![sqlNextRoom][u] = @ + 1]
               /\ sqlNextRoom' = sqlNextRoom + 1
               /\ calls' = [calls EXCEPT ![c].pc = "respond",
                                         ![c].res = [room_id |-> sqlNextRoom,
                                                     other_user_id |-> NoUser]]
    /\ UNCHANGED <<chat_messages, sqlResp, sqlPrev>>

\* ---- EXCEPTION WHEN OTHERS: an INSERT of the function raises; the block's
\* changes are rolled back and the function returns (NULL, NULL)
RpcRaise(c) ==
    /\ calls[c].op = "start" /\ calls[c].pc = "locked"
    /\ calls' = [calls EXCEPT ![c].pc = "respond", ![c].res = NoResult, ![c].failed = TRUE]
    /\ UNCHANGED <<chat_rooms, chat_participants, chat_messages, sqlNextRoom, sqlResp, sqlPrev>>

\* sqlPrev keeps the response before the last one when it answered a start
\* that ran alone while no session was waiting
SqlRemember(resp) ==
    IF resp.op = "start" /\ resp.alone /\ resp.noWaiting THEN resp ELSE SqlNoResp

\* ---- findOrCreateRoomForUser after the RPC returned, and the response of POST
SqlStartResponse(c) ==
    LET k == calls[c]
        base == [SqlNoResp EXCEPT !.op = k.via, !.user = k.user, !.alone = k.alone,
                                  !.noWaiting = k.noWaiting, !.wasIn = k.wasIn,
                                  !.failed = k.failed,
                                  !.sameParts = (k.alone /\ SqlOccupancy = k.preParts),
                                  !.from = IF k.via = "next" THEN k.room ELSE NoRoom,
                                  !.pre = IF k.via = "next" THEN k.preParts ELSE <<>>]
    IN IF k.res.room_id = NoRoom
       THEN [base EXCEPT !.code = 500, !.status = "error"]
       ELSE [base EXCEPT !.code = 200, !.roomId = k.res.room_id,
                         !.partnerId = k.res.other_user_id,
                         !.status = IF k.res.other_user_id # NoUser THEN "chatting"
                                    ELSE "searching"]

SqlStartRespond(c) ==
    /\ calls[c].op = "start" /\ calls[c].pc = "respond"
    /\ LET k == calls[c]
       IN chat_messages' =
             IF k.res.room_id = NoRoom THEN chat_messages
             ELSE SqlInsertMessage(chat_messages, k.res.room_id, SystemSender,
                     IF k.res.other_user_id # NoUser THEN "joined" ELSE "waiting", TRUE)
    /\ sqlResp' = SqlStartResponse(c)
    /\ sqlPrev' = SqlRemember(sqlResp)
    /\ calls' = [calls EXCEPT ![c] = IdleCall]
    /\ UNCHANGED <<chat_rooms, chat_participants, sqlNextRoom>>

\* ---- the start handler that inserts by itself (start/route.ts 7-97), after
\* the RPC returned.  find_available_room returns one composite value, which
\* arrives as an object: Array.isArray(potentialRooms) is false, the join
\* branch of lines 27-56 is not taken and the handler goes on to create a room
\* of its own, whatever the RPC has already done for the user.
SqlV0Response(c, code, roomId) ==
    LET k == calls[c]
    IN [SqlNoResp EXCEPT !.op = "start", !.user = k.user, !.alone = k.alone,
                         !.noWaiting = k.noWaiting, !.wasIn = k.wasIn, !.failed = (code # 200),
                         !.code = code, !.roomId = roomId,
                         !.status = IF code = 200 THEN "searching" ELSE "error",
                         !.sameParts = (k.alone /\ SqlOccupancy' = k.preParts)]

\* lines 60-64, INSERT INTO chat_rooms: the new room's id is kept for the
\* next statement
SqlV0CreateRoom(c) ==
    /\ calls[c].op = "start" /\ calls[c].pc = "respond"
    /\ chat_rooms' = chat_rooms \cup {sqlNextRoom}
    /\ sqlNextRoom' = sqlNextRoom + 1
    /\ calls' = [calls EXCEPT ![c].pc = "participant", ![c].room = sqlNextRoom]
    /\ UNCHANGED <<chat_participants, chat_messages, sqlResp, sqlPrev>>

\* lines 66-69: the INSERT fails, the handler throws and POST answers 500
SqlV0CreateRoomFails(c) ==
    /\ calls[c].op = "start" /\ calls[c].pc = "respond"
    /\ UNCHANGED <<chat_rooms, chat_participants, chat_messages, sqlNextRoom>>
    /\ sqlResp' = SqlV0Response(c, 500, NoRoom)
    /\ sqlPrev' = SqlRemember(sqlResp)
    /\ calls' = [calls EXCEPT ![c] = IdleCall]

\* lines 74-96: the participant row and the "waiting" system message are
\* inserted and the new room is returned
SqlV0AddParticipant(c) ==
    /\ calls[c].op = "start" /\ calls[c].pc = "participant"
    /\ chat_participants' = [chat_participants EXCEPT ![calls[c].room][calls[c].user] = @ + 1]
    /\ chat_messages' = SqlInsertMessage(chat_messages, calls[c].room, SystemSender,
                                         "waiting", TRUE)
    /\ UNCHANGED <<chat_rooms, sqlNextRoom>>
    /\ sqlResp' = SqlV0Response(c, 200, calls[c].room)
    /\ sqlPrev' = SqlRemember(sqlResp)
    /\ calls' = [calls EXCEPT ![c] = IdleCall]

\* lines 78-84: the INSERT fails, the room just created is deleted again, the
\* handler throws and POST answers 500
SqlV0AddParticipantFails(c) ==
    /\ calls[c].op = "start" /\ calls[c].pc = "participant"
    /\ calls[c].room \notin SqlLockedRooms
    /\ chat_rooms' = chat_rooms \ {calls[c].room}
    /\ chat_participants' = [chat_participants EXCEPT ![calls[c].room] = [u \in Users |-> 0]]
    /\ chat_messages' = [chat_messages EXCEPT ![calls[c].room] = <<>>]
    /\ sqlResp' = SqlV0Response(c, 500, NoRoom)
    /\ sqlPrev' = SqlRemember(sqlResp)
    /\ calls' = [calls EXCEPT ![c] = IdleCall]
    /\ UNCHANGED sqlNextRoom

\* a DELETE of chat_participants rows: snapshots taken before it no longer
\* find the rows when they come to lock them
SqlForget(cs, room_id, user_id) ==
    [c \in Calls |-> [cs[c] EXCEPT !.cand = @ \ {<<room_id, user_id>>}]]

SqlLeaveResponse(u, room_id, alone, wasIn, sameParts, sameMsgs) ==
    [SqlNoResp EXCEPT !.op = "leave", !.user = u, !.code = 200, !.roomId = room_id,
                      !.status = "left", !.alone = alone, !.wasIn = wasIn,
                      !.sameParts = sameParts, !.sameMsgs = sameMsgs]

\* ---- POST /api/chat/leave, removeUserFromRoom with the head-only count: the
\* participant rows are deleted (the DELETE waits while a row is locked); the
\* count is requested with head: true, so no rows come back (data is null),
\* remaining?.length === 0 is false and the clean-up branch is not taken
SqlSelectHead(parts, room_id) == [data |-> "null", count |-> SqlCount(parts, room_id)]

SqlLeaveHead(u, room_id) ==
    /\ <<room_id, u>> \notin SqlLockedRows
    /\ LET parts == [chat_participants EXCEPT ![room_id][u] = 0]
           remaining == SqlSelectHead(parts, room_id).data
       IN IF remaining # "null" /\ Len(remaining) = 0
          THEN /\ chat_participants' = [parts EXCEPT ![room_id] = [w \in Users |-> 0]]
               /\ chat_messages' = [chat_messages EXCEPT ![room_id] = <<>>]
               /\ chat_rooms' = chat_rooms \ {room_id}
          ELSE /\ chat_participants' = parts
               /\ UNCHANGED <<chat_rooms, chat_messages>>
    /\ calls' = SqlForget(Overlapped, room_id, u)
    /\ sqlResp' = SqlLeaveResponse(u, room_id, InFlight = {},
                     IF InFlight = {} THEN SqlRoomsOf(chat_participants, u) ELSE {},
                     InFlight = {} /\ SqlOccupancy' = SqlOccupancy,
                     InFlight = {} /\ chat_messages' = chat_messages)
    /\ sqlPrev' = SqlRemember(sqlResp)
    /\ UNCHANGED sqlNextRoom

\* ---- POST /api/chat/next of the Supabase registry (part_003 163-195), up to
\* the RPC: with a currentRoomId its own removeUserFromRoom (lines 81-122)
\* deletes the participant row and asks for the head-only count, so the
\* clean-up branch is not taken; then findOrCreateRoomForUser calls the RPC
SqlNextBegin(c, u, currentRoomId) ==
    /\ FreeSlot(c)
    /\ InFlight = {}
    /\ sqlNextRoom <= MaxRooms
    /\ IF currentRoomId = NoRoom
       THEN UNCHANGED <<chat_rooms, chat_participants, chat_messages>>
       ELSE LET parts == [chat_participants EXCEPT ![currentRoomId][u] = 0]
                remaining == SqlSelectHead(parts, currentRoomId).data
            IN IF remaining # "null" /\ Len(remaining) = 0
               THEN /\ chat_participants' = [parts EXCEPT ![currentRoomId] = [w \in Users |-> 0]]
                    /\ chat_messages' = [chat_messages EXCEPT ![currentRoomId] = <<>>]
                    /\ chat_rooms' = chat_rooms \ {currentRoomId}
               ELSE /\ chat_participants' = parts
                    /\ UNCHANGED <<chat_rooms, chat_messages>>
    /\ calls' = [calls EXCEPT ![c] =
                    [IdleCall EXCEPT !.op = "start", !.via = "next", !.pc = "select",
                                     !.user = u, !.room = currentRoomId, !.alone = TRUE,
                                     !.wasIn = SqlRoomsOf(chat_participants, u),
                                     !.preParts = SqlOccupancy]]
    /\ UNCHANGED <<sqlNextRoom, sqlResp, sqlPrev>>

\* ---- POST /api/chat/leave, removeUserFromRoom with the row count, step 1:
\* the "disconnected" system message is posted before the participant goes
SqlLeaveBegin(c, u, room_id) ==
    /\ FreeSlot(c)
    /\ Cardinality(InFlight) < MaxConcurrent
    /\ chat_messages' = SqlInsertMessage(chat_messages, room_id, SystemSender,
                                         "disconnected", TRUE)
    /\ calls' = [Overlapped EXCEPT ![c] =
                    [IdleCall EXCEPT !.op = "leave", !.pc = "delete", !.user = u,
                                     !.room = room_id,
                                     !.alone = (InFlight = {}),
                                     !.wasIn = IF InFlight = {}
                                               THEN SqlRoomsOf(chat_participants, u) ELSE {},
                                     !.preParts = IF InFlight = {}
                                                  THEN SqlOccupancy ELSE <<>>,
                                     !.preMsgs = IF InFlight = {}
                                                 THEN chat_messages ELSE <<>>]]
    /\ UNCHANGED <<chat_rooms, chat_participants, sqlNextRoom, sqlResp, sqlPrev>>

\* ---- step 2: DELETE FROM chat_participants WHERE user_id = u AND room_id = r
SqlLeaveDelete(c) ==
    /\ calls[c].op = "leave" /\ calls[c].pc = "delete"
    /\ <<calls[c].room, calls[c].user>> \notin SqlLockedRows
    /\ chat_participants' = [chat_participants EXCEPT ![calls[c].room][calls[c].user] = 0]
    /\ calls' = [SqlForget(calls, calls[c].room, calls[c].user) EXCEPT ![c].pc = "count"]
    /\ UNCHANGED <<chat_rooms, chat_messages, sqlNextRoom, sqlResp, sqlPrev>>

SqlLeaveDone(c) ==
    /\ sqlResp' = SqlLeaveResponse(calls[c].user, calls[c].room, calls[c].alone,
                     calls[c].wasIn,
                     calls[c].alone /\ SqlOccupancy' = calls[c].preParts,
                     calls[c].alone /\ chat_messages' = calls[c].preMsgs)
    /\ sqlPrev' = SqlRemember(sqlResp)
    /\ calls' = [calls EXCEPT ![c] = IdleCall]

\* ---- step 3: count the rows left in the room; respond when some are left
SqlLeaveCount(c) ==
    /\ calls[c].op = "leave" /\ calls[c].pc = "count"
    /\ UNCHANGED <<chat_rooms, chat_participants, chat_messages, sqlNextRoom>>
    /\ IF SqlCount(chat_participants, calls[c].room) = 0
       THEN /\ calls' = [calls EXCEPT ![c].pc = "cleanMessages"]
            /\ UNCHANGED <<sqlResp, sqlPrev>>
       ELSE SqlLeaveDone(c)

\* ---- clean-up of the empty room: DELETE FROM chat_messages WHERE room_id = r
SqlLeaveCleanMessages(c) ==
    /\ calls[c].op = "leave" /\ calls[c].pc = "cleanMessages"
    /\ chat_messages' = [chat_messages EXCEPT ![calls[c].room] = <<>>]
    /\ calls' = [calls EXCEPT ![c].pc = "cleanRoom"]
    /\ UNCHANGED <<chat_rooms, chat_participants, sqlNextRoom, sqlResp, sqlPrev>>

\* ---- DELETE FROM chat_rooms WHERE id = r (ON DELETE CASCADE takes the
\* room's participants and messages with it), and the response
SqlLeaveCleanRoom(c) ==
    /\ calls[c].op = "leave" /\ calls[c].pc = "cleanRoom"
    /\ calls[c].room \notin SqlLockedRooms
    /\ chat_rooms' = chat_rooms \ {calls[c].room}
    /\ chat_participants' = [chat_participants EXCEPT ![calls[c].room] = [u \in Users |-> 0]]
    /\ chat_messages' = [chat_messages EXCEPT ![calls[c].room] = <<>>]
    /\ SqlLeaveDone(c)
    /\ UNCHANGED sqlNextRoom

\* ---- POST /api/chat/message: 400 on a missing or blank text; the row is
\* inserted with the caller as sender_id; 403 when the policy rejects the row
\* (error code 42501)
SqlPostMessage(u, room_id, text) ==
    LET code == IF Len(text) = 0 \/ Len(Trim(text)) = 0 THEN 400
                ELSE IF ~SqlMayInsertMessage(room_id, u) THEN 403
                ELSE 200
    IN /\ code = 200 => SqlMessageCount < MaxMsgs
       /\ chat_messages' = IF code = 200
                           THEN SqlInsertMessage(chat_messages, room_id, u, Trim(text), FALSE)
                           ELSE chat_messages
       /\ calls' = Overlapped
       /\ sqlResp' = [SqlNoResp EXCEPT !.op = "message", !.user = u, !.code = code,
                                       !.roomId = room_id, !.status = "message"]
       /\ sqlPrev' = SqlRemember(sqlResp)
       /\ UNCHANGED <<chat_rooms, chat_participants, sqlNextRoom>>

\* ======================================================= socket.io server
\* io.to(to).emit(event, payload): payload.text of 'message', payload.target of
\* 'signal', partnerId of 'matched'; from is the socket whose handler emits
Emit(to, event, from, text, target) ==
    [to |-> to, event |-> event, from |-> from, text |-> text, target |-> target]

NoLast == [op |-> "none", sock |-> NoSock, text |-> <<>>, target |-> NoSock]
Last(op, s) == [NoLast EXCEPT !.op = op, !.sock = s]

\* the event goes to the sender's own socket instead of the partner's
notifyPartnerEcho(socketId, event, text, target) ==
    IF userPartners[socketId] # NoSock
    THEN {Emit(socketId, event, socketId, text, target)}
    ELSE {}

\* notifyPartner: the events it emits
notifyPartner(socketId, event, text, target) ==
    IF userPartners[socketId] # NoSock
    THEN {Emit(userPartners[socketId], event, socketId, text, target)}
    ELSE {}

\* the head is read and stays in the list
lPopKeep(list) == list

\* redis.lPop(WAITING_LIST): the list it leaves behind
lPop(list) == IF list = <<>> THEN <<>> ELSE Tail(list)

\* redis.lRem(WAITING_LIST, 0, socketId): every occurrence removed
RECURSIVE lRem(_, _)
lRem(list, x) ==
    IF list = <<>> THEN <<>>
    ELSE IF Head(list) = x THEN lRem(Tail(list), x)
    ELSE <<Head(list)>> \o lRem(Tail(list), x)

\* a command of the one Redis client: Redis runs the commands in the order
\* they were sent, and the handlers awaiting them resume in that order
Cmd(s, name) == [sock |-> s, cmd |-> name]
Pending(s, name) == \E i \in DOMAIN redisQueue : redisQueue[i] = Cmd(s, name)
Answered(s, name) == redisQueue # <<>> /\ Head(redisQueue) = Cmd(s, name)

\* cleanupUser up to its await: with a partner the partner is notified and both
\* links are deleted; without one lRem is sent and awaited (an lRem of the same
\* socket that is still unanswered already does all that a second one would)
cleanupUser(socketId) ==
    LET partnerId == userPartners[socketId]
    IN IF partnerId # NoSock
       THEN /\ sockOut' = {Emit(partnerId, "partner-disconnected", socketId, <<>>, NoSock)}
            /\ userPartners' = [userPartners EXCEPT ![partnerId] = NoSock, ![socketId] = NoSock]
            /\ UNCHANGED redisQueue
       ELSE /\ sockOut' = {}
            /\ redisQueue' = IF Pending(socketId, "lRem") THEN redisQueue
                             ELSE Append(redisQueue, Cmd(socketId, "lRem"))
            /\ UNCHANGED userPartners

\* ---- io.on('connection'): 'your-id' is emitted, lPop is sent and awaited
SockConnect(s) ==
    /\ sockPc[s] = "new"
    /\ sockPc' = [sockPc EXCEPT ![s] = "lpop"]
    /\ sockAlive' = [sockAlive EXCEPT ![s] = TRUE]
    /\ redisQueue' = Append(redisQueue, Cmd(s, "lPop"))
    /\ sockOut' = {Emit(s, "your-id", s, <<>>, NoSock)}
    /\ sockLast' = Last("connection", s)
    /\ UNCHANGED <<WAITING_LIST, userPartners>>

\* ---- Redis answers the lPop and the handler resumes: a match sets both
\* links, notifies both sockets and registers the event handlers; otherwise
\* rPush is sent and awaited.  A connection's id is fresh and is pushed only by
\* its own handler, so lPop never returns the handler's own id and lines
\* 103-113 are not taken.
SockLPop(s) ==
    /\ sockPc[s] = "lpop" /\ Answered(s, "lPop")
    /\ LET waitingUserId == IF WAITING_LIST = <<>> THEN NoSock ELSE Head(WAITING_LIST)
       IN /\ WAITING_LIST' = lPop(WAITING_LIST)
          /\ IF waitingUserId # NoSock /\ waitingUserId # s
             THEN /\ userPartners' = [userPartners EXCEPT ![s] = waitingUserId,
                                                          ![waitingUserId] = s]
                  /\ sockOut' = {Emit(s, "matched", s, <<>>, waitingUserId),
                                 Emit(waitingUserId, "matched", s, <<>>, s)}
                  /\ sockPc' = [sockPc EXCEPT ![s] = "ready"]
                  /\ redisQueue' = Tail(redisQueue)
                  /\ sockLast' = [Last("matched", s) EXCEPT !.target = waitingUserId]
             ELSE /\ UNCHANGED userPartners
                  /\ sockOut' = {}
                  /\ sockPc' = [sockPc EXCEPT ![s] = "rpush"]
                  /\ redisQueue' = Append(Tail(redisQueue), Cmd(s, "rPush"))
                  /\ sockLast' = Last("no-match", s)
    /\ UNCHANGED sockAlive

\* ---- Redis answers the rPush of line 116 and the handler resumes: 'waiting'
\* is emitted and the event handlers are registered
SockRPush(s) ==
    /\ sockPc[s] = "rpush" /\ Answered(s, "rPush")
    /\ sockPc' = [sockPc EXCEPT ![s] = "ready"]
    /\ redisQueue' = Tail(redisQueue)
    /\ WAITING_LIST' = Append(WAITING_LIST, s)
    /\ sockOut' = {Emit(s, "waiting", s, <<>>, NoSock)}
    /\ sockLast' = Last("waiting", s)
    /\ UNCHANGED <<sockAlive, userPartners>>

\* ---- the client emits 'message': before the handlers are registered the
\* event has no listener; an invalid text is dropped; a valid one is relayed
\* trimmed to the partner
SockMessage(s, text) ==
    /\ sockAlive[s]
    /\ sockOut' = IF sockPc[s] # "ready" THEN {}
                  ELSE IF Len(Trim(text)) = 0 \/ Len(text) > MaxMessageLength THEN {}
                  ELSE notifyPartner(s, "message", Trim(text), NoSock)
    /\ sockLast' = [Last("message", s) EXCEPT !.text = text]
    /\ UNCHANGED <<sockPc, sockAlive, redisQueue, WAITING_LIST, userPartners>>

\* ---- the client emits 'signal' with an envelope addressed to target
SockSignal(s, target) ==
    /\ sockAlive[s]
    /\ sockOut' = IF sockPc[s] # "ready" THEN {}
                  ELSE notifyPartner(s, "signal", <<>>, target)
    /\ sockLast' = [Last("signal", s) EXCEPT !.target = target]
    /\ UNCHANGED <<sockPc, sockAlive, redisQueue, WAITING_LIST, userPartners>>

\* ---- the client emits 'leave'; the socket stays connected
SockLeave(s) ==
    /\ sockAlive[s]
    /\ IF sockPc[s] = "ready"
       THEN cleanupUser(s)
       ELSE sockOut' = {} /\ UNCHANGED <<userPartners, redisQueue>>
    /\ sockLast' = Last("leave", s)
    /\ UNCHANGED <<sockPc, sockAlive, WAITING_LIST>>

\* ---- the transport closes; 'disconnect' has a listener only once the
\* handlers are registered
SockDisconnect(s) ==
    /\ sockAlive[s]
    /\ sockAlive' = [sockAlive EXCEPT ![s] = FALSE]
    /\ IF sockPc[s] = "ready"
       THEN cleanupUser(s)
       ELSE sockOut' = {} /\ UNCHANGED <<userPartners, redisQueue>>
    /\ sockLast' = Last("disconnect", s)
    /\ UNCHANGED <<sockPc, WAITING_LIST>>

\* ---- Redis answers the lRem and cleanupUser resumes: the socket's own link
\* is deleted
SockCleanupDone(s) ==
    /\ Answered(s, "lRem")
    /\ redisQueue' = Tail(redisQueue)
    /\ WAITING_LIST' = lRem(WAITING_LIST, s)
    /\ userPartners' = [userPartners EXCEPT ![s] = NoSock]
    /\ sockOut' = {}
    /\ sockLast' = Last("lRem", s)
    /\ UNCHANGED <<sockPc, sockAlive>>

\* ===================================================== WebRTC signalling
\* SignalingMessage.type, and a type none of the hooks knows
KnownTypes == {"video-offer", "video-answer", "ice-candidate", "bye"}
SignalTypes == KnownTypes \cup {"call-ended"}

\* the endpoint before any call; added is the list of candidates addIceCandidate took, toast the type
\* of the envelope the last toast.error was shown for, timer the envelopes a
\* setTimeout will dispatch again
IdlePeer ==
    [peerConnection |-> FALSE, localStream |-> FALSE, localOffer |-> FALSE,
     remoteDescription |-> FALSE, pendingCandidates |-> <<>>, added |-> <<>>,
     toast |-> "", cleaned |-> FALSE, timer |-> <<>>, out |-> {}]

\* the stream is stopped and the queue emptied, the connection stays open
cleanupKeepConnection(ep) ==
    [ep EXCEPT !.localStream = FALSE, !.localOffer = FALSE,
               !.remoteDescription = FALSE, !.pendingCandidates = <<>>,
               !.cleaned = TRUE]

\* cleanupWebRTC: stream stopped, connection closed (its onicecandidate
\* removed), queue emptied
cleanupWebRTC(ep) ==
    [ep EXCEPT !.peerConnection = FALSE, !.localStream = FALSE, !.localOffer = FALSE,
               !.remoteDescription = FALSE, !.pendingCandidates = <<>>,
               !.cleaned = TRUE]

\* pc.setRemoteDescription resolves: an offer when the connection has no offer
\* of its own outstanding, an answer when it has one (signalingState
\* 'have-local-offer'); otherwise it rejects
SdpAccepted(ep, type) ==
    IF type = "video-offer" THEN ~ep.localOffer ELSE ep.localOffer

\* what the endpoint sends once it has accepted a description: the answer to
\* an offer
Reply(type) == IF type = "video-offer" THEN {"video-answer"} ELSE {}

\* the remote description is set and the queued candidates are added
Flushed(ep) ==
    [ep EXCEPT !.remoteDescription = TRUE, !.localOffer = FALSE,
               !.added = ep.added \o ep.pendingCandidates,
               !.pendingCandidates = <<>>]

\* receivedSignal of the hook kept in types/chat.ts (getUserMedia is granted)
receivedSignalChat(ep0, m) ==
    LET ep == [ep0 EXCEPT !.out = {}]
        failed == [cleanupWebRTC(ep) EXCEPT !.toast = m.type]
        pc == IF m.type \in {"video-offer", "video-answer"} /\ ~ep.peerConnection
              THEN [ep EXCEPT !.localStream = TRUE, !.peerConnection = TRUE]
              ELSE ep
    IN  IF ~pc.peerConnection /\ m.type # "ice-candidate" THEN failed
        ELSE CASE m.type \in {"video-offer", "video-answer"} ->
                    IF SdpAccepted(pc, m.type)
                    THEN [Flushed(pc) EXCEPT !.out = Reply(m.type)]
                    ELSE failed
               [] m.type = "ice-candidate" ->
                    IF pc.peerConnection /\ pc.remoteDescription
                    THEN [pc EXCEPT !.added = Append(@, m.n)]
                    ELSE [pc EXCEPT !.pendingCandidates = Append(@, m.n)]
               [] m.type = "bye" -> cleanupWebRTC(pc)
               [] OTHER -> pc

\* receivedSignal of part_001, whose 'offer' and 'answer' are the types written
\* "video-offer" and "video-answer" here; 'bye' is not among its cases
receivedSignalPart(ep, m) ==
    LET pc == [ep EXCEPT !.peerConnection = TRUE, !.out = {}]
        failed == [cleanupWebRTC(pc) EXCEPT !.toast = m.type]
    IN  CASE m.type = "video-offer" ->
                IF SdpAccepted(pc, m.type)
                THEN [Flushed(pc) EXCEPT !.out = Reply(m.type)]
                ELSE failed
          [] m.type = "video-answer" ->
                IF ~pc.localOffer THEN pc ELSE Flushed(pc)
          [] m.type = "ice-candidate" ->
                IF ~pc.remoteDescription
                THEN [pc EXCEPT !.pendingCandidates = Append(@, m.n)]
                ELSE [pc EXCEPT !.added = Append(@, m.n)]
          [] OTHER -> pc

\* receivedSignal of hooks/useWebRTC.ts: an endpoint that did not start the
\* call is the one with the larger user id, so the effect that follows
\* startVideoCall creates its connection and makes no offer
receivedSignalHook(ep0, m) ==
    LET ep == [ep0 EXCEPT !.out = {}]
        pc == IF ~ep.peerConnection /\ m.type # "video-offer" /\ ep.localStream
              THEN [ep EXCEPT !.peerConnection = TRUE]
              ELSE ep
    IN  IF ~ep.peerConnection /\ m.type # "video-offer" /\ ~ep.localStream THEN ep
        ELSE CASE m.type = "video-offer" ->
                    IF ~pc.peerConnection /\ ~pc.localStream
                    THEN [pc EXCEPT !.localStream = TRUE, !.peerConnection = TRUE,
                                    !.timer = Append(@, m)]
                    ELSE IF SdpAccepted(pc, m.type)
                    THEN [pc EXCEPT !.peerConnection = TRUE, !.remoteDescription = TRUE,
                                    !.out = Reply(m.type)]
                    ELSE [pc EXCEPT !.peerConnection = TRUE]
               [] m.type = "video-answer" ->
                    IF pc.peerConnection /\ pc.localOffer
                    THEN [pc EXCEPT !.remoteDescription = TRUE, !.localOffer = FALSE]
                    ELSE pc
               [] m.type = "ice-candidate" ->
                    IF pc.peerConnection /\ pc.remoteDescription
                    THEN [pc EXCEPT !.added = Append(@, m.n)]
                    ELSE pc
               [] OTHER -> pc

\* ---- the chat page mounts the hook, one of its three copies
RtcMount(impl) ==
    /\ rtcImpl = "none"
    /\ rtcImpl' = impl
    /\ UNCHANGED <<rtcSent, rtcWire, rtcInbox, rtcSeen, rtcPeer, clientMessages, clientNow, clientHistory>>

\* ---- startVideoCall while no call exists: local media, a new connection and
\* the endpoint's own offer (getUserMedia is granted)
RtcStartVideoCall ==
    /\ rtcImpl # "none"
    /\ ~rtcPeer.peerConnection /\ ~rtcPeer.localStream
    /\ rtcPeer' = [rtcPeer EXCEPT !.peerConnection = TRUE, !.localStream = TRUE,
                                  !.localOffer = TRUE, !.out = {"video-offer"}]
    /\ UNCHANGED <<rtcImpl, rtcSent, rtcWire, rtcInbox, rtcSeen, clientMessages, clientNow, clientHistory>>

\* ---- stopVideoCall(true), the user ends the call: the hook of types/chat.ts
\* sends 'bye' when it has a connection, the other copies send nothing
RtcStopVideoCall ==
    /\ rtcImpl # "none"
    /\ rtcPeer' = [cleanupWebRTC(rtcPeer) EXCEPT
                     !.out = IF rtcImpl = "types/chat.ts" /\ rtcPeer.peerConnection
                             THEN {"bye"} ELSE {}]
    /\ UNCHANGED <<rtcImpl, rtcSent, rtcWire, rtcInbox, rtcSeen, clientMessages, clientNow, clientHistory>>

\* ---- pc.onicecandidate: an open connection that has a local description
\* sends a candidate it gathered
RtcIceCandidate ==
    /\ rtcPeer.peerConnection /\ (rtcPeer.localOffer \/ rtcPeer.remoteDescription)
    /\ rtcPeer' = [rtcPeer EXCEPT !.out = {"ice-candidate"}]
    /\ UNCHANGED <<rtcImpl, rtcSent, rtcWire, rtcInbox, rtcSeen, clientMessages, clientNow, clientHistory>>

\* ---- the partner's sendSignal emits 'signal' with an envelope of the type
RtcSend(type) ==
    /\ rtcImpl # "none"
    /\ Len(rtcSent) < MaxSignals
    /\ LET m == [type |-> type, n |-> Len(rtcSent) + 1]
       IN  /\ rtcSent' = Append(rtcSent, m)
           /\ rtcWire' = Append(rtcWire, m)
    /\ UNCHANGED <<rtcImpl, rtcInbox, rtcSeen, rtcPeer, clientMessages, clientNow, clientHistory>>

\* the newest envelope instead of the oldest
RelayNewest(wire) == Len(wire)
\* the envelope of the partner's connection the server handles next: socket.io
\* hands a connection's events to its listener in the order they were sent
RelayNext(wire) == 1

\* ---- socket.on('signal') of the server: notifyPartner emits the payload,
\* whatever its type, to the partner (the two sockets are partners throughout)
RtcRelay ==
    /\ rtcWire # <<>>
    /\ LET i == RelayNext(rtcWire)
       IN  /\ rtcInbox' = Append(rtcInbox, rtcWire[i])
           /\ rtcWire' = RemoveAt(rtcWire, i)
    /\ UNCHANGED <<rtcImpl, rtcSent, rtcSeen, rtcPeer, clientMessages, clientNow, clientHistory>>

\* ---- socket.on('signal') of the endpoint hands the envelope to receivedSignal
RtcDeliver ==
    /\ rtcInbox # <<>>
    /\ LET m == Head(rtcInbox)
       IN  /\ rtcSeen' = Append(rtcSeen, m)
           /\ rtcPeer' = CASE rtcImpl = "types/chat.ts" -> receivedSignalChat(rtcPeer, m)
                           [] rtcImpl = "part_001" -> receivedSignalPart(rtcPeer, m)
                           [] OTHER -> receivedSignalHook(rtcPeer, m)
    /\ rtcInbox' = Tail(rtcInbox)
    /\ UNCHANGED <<rtcImpl, rtcSent, rtcWire, clientMessages, clientNow, clientHistory>>

\* ---- the setTimeout of useWebRTC.ts dispatches 'webrtc-signal' with the offer
\* that waited for the local stream
RtcRedispatch ==
    /\ rtcPeer.timer # <<>>
    /\ rtcPeer' = receivedSignalHook([rtcPeer EXCEPT !.timer = Tail(@)], Head(rtcPeer.timer))
    /\ UNCHANGED <<rtcImpl, rtcSent, rtcWire, rtcInbox, rtcSeen, clientMessages, clientNow, clientHistory>>

\* ========================================================== chat window
\* Array.prototype.sort with the comparator (a, b) => a.timestamp - b.timestamp:
\* a stable sort, here by inserting each element behind the elements that are
\* not newer
RECURSIVE SortByTimestamp(_)
SortByTimestamp(s) ==
    IF s = <<>> THEN <<>>
    ELSE LET rest == SortByTimestamp(SubSeq(s, 1, Len(s) - 1))
             x == s[Len(s)]
             k == Cardinality({i \in DOMAIN rest : rest[i].timestamp <= x.timestamp})
         IN  SubSeq(rest, 1, k) \o <<x>> \o SubSeq(rest, k + 1, Len(rest))

\* new Date(undefined).getTime(); 0, like NaN, is falsy and no timestamp
NaN == 0

\* the row of chat_messages a change event carries: the columns of the table
ChatMessageRow(id) == [id |-> id, timestamp |-> id]

\* new Date(newMessage.created_at).getTime() of the INSERT listener
PayloadTime(row) ==
    IF "created_at" \in DOMAIN row THEN row.created_at ELSE NaN

\* addMessage: the updater handed to setMessages; now is Date.now() (an id is
\* always given here: the row's id, or a fresh uuid)
addMessage(prev, msgId, timestamp, now) ==
    IF \E i \in DOMAIN prev : prev[i].id = msgId THEN prev
    ELSE SortByTimestamp(Append(prev, [id |-> msgId,
                                       timestamp |-> IF timestamp # NaN THEN timestamp
                                                     ELSE now]))

\* the ids of the partner's rows, numbered in the order of their creation
\* timestamps, and the uuids the client makes up itself
ServerIds == 1..MaxClientMsgs
LocalIds == (MaxClientMsgs + 1)..(MaxClientMsgs + MaxLocalMsgs)

\* ---- the INSERT listener hands a row of the partner to handleNewMessage; the
\* transport may deliver a row again, and rows in any order
ClientDeliver(id) ==
    /\ clientMessages' = addMessage(clientMessages, id, PayloadTime(ChatMessageRow(id)),
                                    clientNow)
    /\ clientHistory' =
          [duplicate |-> clientHistory.duplicate
                            \/ \E i \in DOMAIN clientMessages : clientMessages[i].id = id,
           outOfOrder |-> clientHistory.outOfOrder
                            \/ \E i \in DOMAIN clientMessages :
                                  clientMessages[i].id \in ServerIds /\ clientMessages[i].id > id]
    /\ UNCHANGED <<rtcImpl, rtcSent, rtcWire, rtcInbox, rtcSeen, rtcPeer, clientNow>>

\* ---- sendMessage and addSystemMessage: a fresh uuid and Date.now()
ClientLocal(id) ==
    /\ \A i \in DOMAIN clientMessages : clientMessages[i].id # id
    /\ clientMessages' = addMessage(clientMessages, id, NaN, clientNow)
    /\ UNCHANGED <<rtcImpl, rtcSent, rtcWire, rtcInbox, rtcSeen, rtcPeer, clientNow, clientHistory>>

\* ---- the browser's clock goes on
ClientTick ==
    /\ clientNow < MaxStamp
    /\ clientNow' = clientNow + 1
    /\ UNCHANGED <<rtcImpl, rtcSent, rtcWire, rtcInbox, rtcSeen, rtcPeer, clientMessages, clientHistory>>

\* ======================================================= socket client
\* useChatManager.  A callback of the hook sees the status of the render that
\* created it: connect is re-created on every change of status, the listeners
\* of a socket are created inside one call of connect and keep that call's
\* status for as long as the socket lives, and the connect a timer calls is
\* the one of the render that set the timer.  userId and isPartnerTyping are
\* left out.
ActiveStatus == {"connecting", "chatting", "waiting"}

IdleManager ==
    [status |-> "idle", partnerId |-> NoSock, socketRef |-> 0, created |-> 0,
     seen |-> "idle", server |-> "closed", timers |-> {}]

\* partnerId is left as it is
cleanupResourcesKeepPartner(m) ==
    [m EXCEPT !.socketRef = 0, !.server = "closed"]

\* cleanupResources: the listeners are removed, the socket is disconnected and
\* the reference dropped; partnerId is reset
cleanupResources(m) ==
    [m EXCEPT !.socketRef = 0, !.partnerId = NoSock, !.server = "closed"]

resetStateForNewConnection(m, newStatus) ==
    [cleanupResources(m) EXCEPT !.status = newStatus]

\* connect as created by a render with status seen, on the manager m: a new
\* socket whose connection handler runs on the server, its listeners closing
\* over seen
connect(m, seen) ==
    IF seen \in ActiveStatus THEN m
    ELSE [resetStateForNewConnection(m, "connecting") EXCEPT
             !.socketRef = m.created + 1, !.created = m.created + 1,
             !.seen = seen, !.server = "handler"]

\* disconnect(true): 'leave' is emitted when the render's status is chatting,
\* then the status is set and the socket cleaned up
disconnect(m) ==
    IF m.socketRef = 0 THEN resetStateForNewConnection(m, "disconnected")
    ELSE cleanupResources([m EXCEPT !.status = "disconnected"])

CmLast(op) == [op |-> op, was |-> chatManager.status]

\* ---- handleStartChat: connect of the current render
CmStart ==
    /\ chatManager.status \in ActiveStatus \/ chatManager.created < MaxConnects
    /\ chatManager' = connect(chatManager, chatManager.status)
    /\ cmLast' = CmLast("start")

\* ---- handleEndChat
CmEnd ==
    /\ chatManager' = disconnect(chatManager)
    /\ cmLast' = CmLast("end")

\* ---- handleNextChat: disconnect, and connect of the current render after
\* 100 ms
CmNext ==
    /\ chatManager.timers = {}
    /\ chatManager.created < MaxConnects
    /\ chatManager' = [disconnect(chatManager) EXCEPT !.timers = {chatManager.status}]
    /\ cmLast' = CmLast("next")

\* ---- the timer of handleNextChat fires
CmTimer ==
    \E seen \in chatManager.timers :
        /\ seen \in ActiveStatus \/ chatManager.created < MaxConnects
        /\ chatManager' = [connect(chatManager, seen) EXCEPT !.timers = @ \ {seen}]
        /\ cmLast' = CmLast("timer")

\* ---- 'waiting': the connection handler of the server found nobody
CmOnWaiting ==
    /\ chatManager.socketRef # 0 /\ chatManager.server = "handler"
    /\ chatManager' = [chatManager EXCEPT !.status = "waiting", !.server = "waiting"]
    /\ cmLast' = CmLast("waiting")

\* ---- 'matched': the handler popped a waiting socket, or a later connection
\* popped this one
CmOnMatched(partner) ==
    /\ chatManager.socketRef # 0 /\ chatManager.server \in {"handler", "waiting"}
    /\ chatManager' = [chatManager EXCEPT !.partnerId = partner, !.status = "chatting",
                                          !.server = "matched"]
    /\ cmLast' = CmLast("matched")

\* ---- 'partner-disconnected': cleanupUser of the partner
CmOnPartnerDisconnected ==
    /\ chatManager.socketRef # 0 /\ chatManager.server = "matched"
    /\ chatManager' = [chatManager EXCEPT !.partnerId = NoSock, !.status = "disconnected",
                                          !.server = "alone"]
    /\ cmLast' = CmLast("partner-disconnected")

\* ---- 'server-error': Redis failed in the connection handler
CmOnServerError ==
    /\ chatManager.socketRef # 0 /\ chatManager.server = "handler"
    /\ chatManager' = resetStateForNewConnection(chatManager, "error")
    /\ cmLast' = CmLast("server-error")

\* ---- 'disconnect': the transport is lost (a disconnect the client asks for
\* comes after removeAllListeners and reaches no listener)
CmOnDisconnect ==
    /\ chatManager.socketRef # 0
    /\ chatManager' =
          IF chatManager.seen \notin {"idle", "disconnected", "error"}
          THEN resetStateForNewConnection(chatManager, "error")
          ELSE resetStateForNewConnection(chatManager,
                  IF chatManager.status = "connecting" THEN "error" ELSE "disconnected")
    /\ cmLast' = CmLast("disconnect")

\* ===================================================== Supabase client
\* useChat of part_002 with the participant subscription of useChatRealtime.
\* The userId is set.  A state update made by one callback is one step.
IdleChat ==
    [status |-> "idle", roomId |-> NoRoom, partnerId |-> NoUser,
     awaited |-> [start |-> 0, next |-> 0], listeners |-> {},
     channels |-> {}, cleaning |-> FALSE]

\* the subscription effect of useChatRealtime, run by the render that follows
\* a change of roomId: the clean-up of the effect of a room starts
\* cleanupSubscriptions (it awaits), and the channels of a new room are created
\* and subscribed
useChatRealtimeEffect(c, roomId) ==
    IF roomId = c.roomId THEN c
    ELSE [c EXCEPT !.cleaning = @ \/ c.roomId # NoRoom,
                   !.channels = IF roomId = NoRoom THEN @ ELSE @ \cup {roomId}]

\* setStatus / setRoomId / setPartnerId of one callback, and the render
UcSet(c, status, roomId, partnerId) ==
    [useChatRealtimeEffect(c, roomId) EXCEPT
        !.status = status, !.roomId = roomId, !.partnerId = partnerId]

\* handlePartnerJoined: chatting only when the status is searching; the
\* partner id is taken either way
handlePartnerJoined(c, joinedPartnerId) ==
    IF c.status = "searching"
    THEN [c EXCEPT !.status = "chatting", !.partnerId = joinedPartnerId]
    ELSE [c EXCEPT !.partnerId = joinedPartnerId]

\* handlePartnerLeft, and handleSubscriptionError, which sets the same state
handlePartnerLeft(c) == UcSet(c, "disconnected", NoRoom, NoUser)

\* ---- startChat up to its await
UcStartChat ==
    /\ useChat.status \notin {"searching", "chatting"}
    /\ useChat.awaited.start + useChat.awaited.next < MaxAwaited
    /\ useChat' = [UcSet(useChat, "searching", NoRoom, NoUser) EXCEPT !.awaited.start = @ + 1]

\* ---- the start API answers and startChat resumes: the room and the status of
\* the response, or idle when the call failed
UcStartResponse(roomId, status, partnerId, ok) ==
    /\ useChat.awaited.start > 0
    /\ useChat' = [(IF ok
                     THEN UcSet(useChat, status, roomId, partnerId)
                     ELSE UcSet(useChat, "idle", NoRoom, NoUser))
                     EXCEPT !.awaited.start = @ - 1]

\* ---- nextChat up to its await
UcNextChat ==
    /\ useChat.status # "searching"
    /\ useChat.awaited.start + useChat.awaited.next < MaxAwaited
    /\ useChat' = [UcSet(useChat, "searching", NoRoom, NoUser) EXCEPT !.awaited.next = @ + 1]

\* ---- the next API answers and nextChat resumes
UcNextResponse(roomId, status, partnerId, ok) ==
    /\ useChat.awaited.next > 0
    /\ useChat' = [(IF ok
                     THEN UcSet(useChat, status, roomId, partnerId)
                     ELSE UcSet(useChat, "disconnected", NoRoom, NoUser))
                     EXCEPT !.awaited.next = @ - 1]

\* ---- endChat (the leave call it awaits changes nothing in the hook)
UcEndChat ==
    /\ useChat.roomId # NoRoom /\ useChat.status \notin {"idle", "disconnected"}
    /\ useChat' = UcSet(useChat, "disconnected", NoRoom, NoUser)

\* ---- a change of chat_participants reaches the listener of the room the
\* client is subscribed to, and the listener awaits the count of the room: the
\* row of another user inserted while the client waits alone, or deleted while
\* it chats
UcParticipantChange(eventType) ==
    /\ useChat.roomId # NoRoom /\ useChat.roomId \in useChat.channels
    /\ useChat.status = (IF eventType = "INSERT" THEN "searching" ELSE "chatting")
    /\ Cardinality(useChat.listeners) < MaxListeners
    /\ useChat' = [useChat EXCEPT
                      !.listeners = @ \cup {[eventType |-> eventType, roomId |-> useChat.roomId]}]

\* ---- the count arrives and the listener resumes: onPartnerJoined for an
\* INSERT that made two, onPartnerLeft for a DELETE, nothing on an error
UcParticipantCount(l, count, error) ==
    /\ l \in useChat.listeners
    /\ LET c == [useChat EXCEPT !.listeners = @ \ {l}]
       IN  useChat' = IF error THEN c
                      ELSE IF l.eventType = "INSERT"
                      THEN IF count = 2 THEN handlePartnerJoined(c, NoUser) ELSE c
                      ELSE handlePartnerLeft(c)

\* ---- a channel that is not removed yet reports an error to its subscribe
\* callback
UcSubscriptionError ==
    /\ useChat.channels # {}
    /\ useChat' = handlePartnerLeft(useChat)

\* ---- cleanupSubscriptions resumes after its awaits: removeAllChannels
UcCleanupSubscriptions ==
    /\ useChat.cleaning
    /\ useChat' = [useChat EXCEPT !.channels = {}, !.cleaning = FALSE]

\* ================================================================ specs
InitMemVars ==
    /\ waitingRooms = <<>>
    /\ activeRooms = <<>>
    /\ messages = <<>>
    /\ memNextId = 1
    /\ memPending = {}
    /\ memResp = MemNoResp

InitSqlVars ==
    /\ chat_rooms = {}
    /\ chat_participants = [r \in RoomIds |-> [u \in Users |-> 0]]
    /\ chat_messages = [r \in RoomIds |-> <<>>]
    /\ sqlNextRoom = 1
    /\ calls = [c \in Calls |-> IdleCall]
    /\ sqlResp = SqlNoResp
    /\ sqlPrev = SqlNoResp

InitSockVars ==
    /\ sockPc = [s \in Socks |-> "new"]
    /\ sockAlive = [s \in Socks |-> FALSE]
    /\ redisQueue = <<>>
    /\ WAITING_LIST = <<>>
    /\ userPartners = [s \in Socks |-> NoSock]
    /\ sockOut = {}
    /\ sockLast = NoLast

InitCliVars ==
    /\ rtcImpl = "none"
    /\ rtcSent = <<>>
    /\ rtcWire = <<>>
    /\ rtcInbox = <<>>
    /\ rtcSeen = <<>>
    /\ rtcPeer = IdlePeer
    /\ clientMessages = <<>>
    /\ clientNow = 1
    /\ clientHistory = [duplicate |-> FALSE, outOfOrder |-> FALSE]

InitHookVars ==
    /\ chatManager = IdleManager
    /\ cmLast = [op |-> "none", was |-> "idle"]
    /\ useChat = IdleChat

Init == InitMemVars /\ InitSqlVars /\ InitSockVars /\ InitCliVars /\ InitHookVars

\* the in-memory registry
NextMem ==
    \/ \E u \in Users : MemStart(u) /\ UNCHANGED <<sqlVars, sockVars, cliVars, hookVars>>
    \/ \E u \in Users, r \in MemRoomIds : MemNextLeave(u, r) /\ UNCHANGED <<sqlVars, sockVars, cliVars, hookVars>>
    \/ \E u \in Users : MemNextFind(u) /\ UNCHANGED <<sqlVars, sockVars, cliVars, hookVars>>
    \/ \E u \in Users, r \in MemRoomIds : MemLeave(u, r) /\ UNCHANGED <<sqlVars, sockVars, cliVars, hookVars>>
    \/ \E u \in Users, r \in MemRoomIds, t \in Texts :
          MemPostMessage(u, r, t) /\ UNCHANGED <<sqlVars, sockVars, cliVars, hookVars>>

SpecMem == Init /\ [][NextMem]_vars

\* the in-memory registry when users only start and post, with texts of every
\* size
NextMemPost ==
    \/ \E u \in Users : MemStart(u) /\ UNCHANGED <<sqlVars, sockVars, cliVars, hookVars>>
    \/ \E u \in Users, r \in MemRoomIds, t \in SockTexts :
          MemPostMessage(u, r, t) /\ UNCHANGED <<sqlVars, sockVars, cliVars, hookVars>>

SpecMemPost == Init /\ [][NextMemPost]_vars

\* the steps of find_available_room and of the start handler around it
RpcSteps ==
    \/ \E c \in Calls : RpcSelect(c) /\ UNCHANGED <<memVars, sockVars, cliVars, hookVars>>
    \/ \E c \in Calls : RpcLockRows(c) /\ UNCHANGED <<memVars, sockVars, cliVars, hookVars>>
    \/ \E c \in Calls : RpcCommit(c) /\ UNCHANGED <<memVars, sockVars, cliVars, hookVars>>
    \/ \E c \in Calls : SqlStartRespond(c) /\ UNCHANGED <<memVars, sockVars, cliVars, hookVars>>

\* the Supabase registry: start through the RPC, leave with the head-only count
NextSql ==
    \/ \E c \in Calls, u \in Users : SqlStartBegin(c, u) /\ UNCHANGED <<memVars, sockVars, cliVars, hookVars>>
    \/ RpcSteps
    \/ \E u \in Users, r \in RoomIds : SqlLeaveHead(u, r) /\ UNCHANGED <<memVars, sockVars, cliVars, hookVars>>

SpecSql == Init /\ [][NextSql]_vars

\* the Supabase registry when an INSERT of the RPC can fail
NextSqlFault ==
    \/ \E c \in Calls, u \in Users : SqlStartBegin(c, u) /\ UNCHANGED <<memVars, sockVars, cliVars, hookVars>>
    \/ RpcSteps
    \/ \E c \in Calls : RpcRaise(c) /\ UNCHANGED <<memVars, sockVars, cliVars, hookVars>>

SpecSqlFault == Init /\ [][NextSqlFault]_vars

\* a start when the requests are served one at a time and a user calls start
\* only while holding no participant row
SqlSerialStart(c, u) ==
    /\ SqlRoomsOf(chat_participants, u) = {}
    /\ SqlStartBeginUpTo(c, u, 1)

\* the Supabase registry with messages, requests served one at a time: start
\* through the RPC, leave with the head-only count
NextSqlChat ==
    \/ \E c \in Calls, u \in Users : SqlSerialStart(c, u) /\ UNCHANGED <<memVars, sockVars, cliVars, hookVars>>
    \/ RpcSteps
    \/ \E u \in Users, r \in RoomIds :
          InFlight = {} /\ SqlLeaveHead(u, r) /\ UNCHANGED <<memVars, sockVars, cliVars, hookVars>>
    \/ \E u \in Users, r \in RoomIds, t \in Texts :
          InFlight = {} /\ SqlPostMessage(u, r, t) /\ UNCHANGED <<memVars, sockVars, cliVars, hookVars>>

SpecSqlChat == Init /\ [][NextSqlChat]_vars

\* the Supabase registry with messages, requests served one at a time: start
\* through the RPC, leave with the row count
NextSqlV1 ==
    \/ \E c \in Calls, u \in Users : SqlSerialStart(c, u) /\ UNCHANGED <<memVars, sockVars, cliVars, hookVars>>
    \/ RpcSteps
    \/ \E c \in Calls, u \in Users, r \in RoomIds :
          InFlight = {} /\ SqlLeaveBegin(c, u, r) /\ UNCHANGED <<memVars, sockVars, cliVars, hookVars>>
    \/ \E c \in Calls : SqlLeaveDelete(c) /\ UNCHANGED <<memVars, sockVars, cliVars, hookVars>>
    \/ \E c \in Calls : SqlLeaveCount(c) /\ UNCHANGED <<memVars, sockVars, cliVars, hookVars>>
    \/ \E c \in Calls : SqlLeaveCleanMessages(c) /\ UNCHANGED <<memVars, sockVars, cliVars, hookVars>>
    \/ \E c \in Calls : SqlLeaveCleanRoom(c) /\ UNCHANGED <<memVars, sockVars, cliVars, hookVars>>
    \/ \E u \in Users, r \in RoomIds, t \in Texts :
          InFlight = {} /\ SqlPostMessage(u, r, t) /\ UNCHANGED <<memVars, sockVars, cliVars, hookVars>>

SpecSqlV1 == Init /\ [][NextSqlV1]_vars

\* the Supabase registry when every user calls start once and nobody leaves
NextSqlStarts ==
    \/ \E c \in Calls, u \in Users : SqlFirstStart(c, u) /\ UNCHANGED <<memVars, sockVars, cliVars, hookVars>>
    \/ RpcSteps

SpecSqlStarts == Init /\ [][NextSqlStarts]_vars

\* the Supabase registry with next, requests served one at a time: start
\* through the RPC, next, leave with the row count
NextSqlNext ==
    \/ \E c \in Calls, u \in Users : SqlSerialStart(c, u) /\ UNCHANGED <<memVars, sockVars, cliVars, hookVars>>
    \/ RpcSteps
    \/ \E c \in Calls, u \in Users, r \in RoomIds \cup {NoRoom} :
          SqlNextBegin(c, u, r) /\ UNCHANGED <<memVars, sockVars, cliVars, hookVars>>
    \/ \E c \in Calls, u \in Users, r \in RoomIds :
          InFlight = {} /\ SqlLeaveBegin(c, u, r) /\ UNCHANGED <<memVars, sockVars, cliVars, hookVars>>
    \/ \E c \in Calls : SqlLeaveDelete(c) /\ UNCHANGED <<memVars, sockVars, cliVars, hookVars>>
    \/ \E c \in Calls : SqlLeaveCount(c) /\ UNCHANGED <<memVars, sockVars, cliVars, hookVars>>
    \/ \E c \in Calls : SqlLeaveCleanMessages(c) /\ UNCHANGED <<memVars, sockVars, cliVars, hookVars>>
    \/ \E c \in Calls : SqlLeaveCleanRoom(c) /\ UNCHANGED <<memVars, sockVars, cliVars, hookVars>>

SpecSqlNext == Init /\ [][NextSqlNext]_vars

\* a start of the handler that creates a room after the RPC: two fresh room
\* ids may be needed
SqlV0Begin(c, u) ==
    /\ sqlNextRoom + 1 <= MaxRooms
    /\ SqlStartBeginUpTo(c, u, 1)

\* the Supabase registry under the start handler that inserts by itself, when
\* its INSERTs can fail; requests are served one at a time
NextSqlV0 ==
    \/ \E c \in Calls, u \in Users : SqlV0Begin(c, u) /\ UNCHANGED <<memVars, sockVars, cliVars, hookVars>>
    \/ \E c \in Calls : RpcSelect(c) /\ UNCHANGED <<memVars, sockVars, cliVars, hookVars>>
    \/ \E c \in Calls : RpcLockRows(c) /\ UNCHANGED <<memVars, sockVars, cliVars, hookVars>>
    \/ \E c \in Calls : RpcCommit(c) /\ UNCHANGED <<memVars, sockVars, cliVars, hookVars>>
    \/ \E c \in Calls : RpcRaise(c) /\ UNCHANGED <<memVars, sockVars, cliVars, hookVars>>
    \/ \E c \in Calls : SqlV0CreateRoom(c) /\ UNCHANGED <<memVars, sockVars, cliVars, hookVars>>
    \/ \E c \in Calls : SqlV0CreateRoomFails(c) /\ UNCHANGED <<memVars, sockVars, cliVars, hookVars>>
    \/ \E c \in Calls : SqlV0AddParticipant(c) /\ UNCHANGED <<memVars, sockVars, cliVars, hookVars>>
    \/ \E c \in Calls : SqlV0AddParticipantFails(c) /\ UNCHANGED <<memVars, sockVars, cliVars, hookVars>>
    \/ \E u \in Users, r \in RoomIds :
          InFlight = {} /\ SqlLeaveHead(u, r) /\ UNCHANGED <<memVars, sockVars, cliVars, hookVars>>

SpecSqlV0 == Init /\ [][NextSqlV0]_vars

\* the socket.io server: every connection is made once
NextSock ==
    \/ \E s \in Socks : SockConnect(s) /\ UNCHANGED <<memVars, sqlVars, cliVars, hookVars>>
    \/ \E s \in Socks : SockLPop(s) /\ UNCHANGED <<memVars, sqlVars, cliVars, hookVars>>
    \/ \E s \in Socks : SockRPush(s) /\ UNCHANGED <<memVars, sqlVars, cliVars, hookVars>>
    \/ \E s \in Socks, t \in SockTexts : SockMessage(s, t) /\ UNCHANGED <<memVars, sqlVars, cliVars, hookVars>>
    \/ \E s \in Socks, t \in Socks : SockSignal(s, t) /\ UNCHANGED <<memVars, sqlVars, cliVars, hookVars>>
    \/ \E s \in Socks : SockLeave(s) /\ UNCHANGED <<memVars, sqlVars, cliVars, hookVars>>
    \/ \E s \in Socks : SockDisconnect(s) /\ UNCHANGED <<memVars, sqlVars, cliVars, hookVars>>
    \/ \E s \in Socks : SockCleanupDone(s) /\ UNCHANGED <<memVars, sqlVars, cliVars, hookVars>>

SpecSock == Init /\ [][NextSock]_vars

\* a handler that awaits Redis resumes once Redis has answered; the events of
\* the clients (message, signal, leave, disconnect) may never come
SockResume(s) ==
    /\ SockLPop(s) \/ SockRPush(s) \/ SockCleanupDone(s)
    /\ UNCHANGED <<memVars, sqlVars, cliVars, hookVars>>

SpecSockFair == SpecSock /\ \A s \in Socks : WF_vars(SockResume(s))

\* leave is called by an occupant of an active session, or by the occupant its
\* partner's leave (in progress, or the last request answered) left behind
SqlPartnersLeave(u, room_id) ==
    /\ chat_participants[room_id][u] > 0
    /\ \A d \in Calls : calls[d].op # "start" /\ calls[d].user # u
    /\ \/ SqlCount(chat_participants, room_id) = 2
       \/ \E d \in Calls : calls[d].op = "leave" /\ calls[d].room = room_id
       \/ sqlResp.op = "leave" /\ sqlResp.roomId = room_id /\ sqlResp.user # u

\* the Supabase registry when only the occupants of active sessions leave, two
\* of them at a time: leave with the row count
NextSqlLeaves ==
    \/ \E c \in Calls, u \in Users : SqlSerialStart(c, u) /\ UNCHANGED <<memVars, sockVars, cliVars, hookVars>>
    \/ RpcSteps
    \/ \E c \in Calls, u \in Users, r \in RoomIds :
          SqlPartnersLeave(u, r) /\ SqlLeaveBegin(c, u, r) /\ UNCHANGED <<memVars, sockVars, cliVars, hookVars>>
    \/ \E c \in Calls : SqlLeaveDelete(c) /\ UNCHANGED <<memVars, sockVars, cliVars, hookVars>>
    \/ \E c \in Calls : SqlLeaveCount(c) /\ UNCHANGED <<memVars, sockVars, cliVars, hookVars>>
    \/ \E c \in Calls : SqlLeaveCleanMessages(c) /\ UNCHANGED <<memVars, sockVars, cliVars, hookVars>>
    \/ \E c \in Calls : SqlLeaveCleanRoom(c) /\ UNCHANGED <<memVars, sockVars, cliVars, hookVars>>
    \/ \E u \in Users, r \in RoomIds, t \in Texts :
          InFlight = {} /\ SqlPostMessage(u, r, t) /\ UNCHANGED <<memVars, sockVars, cliVars, hookVars>>

SpecSqlLeaves == Init /\ [][NextSqlLeaves]_vars

\* the same with the leave of part_003, whose only write is the DELETE of the
\* caller's own row
NextSqlLeavesHead ==
    \/ \E c \in Calls, u \in Users : SqlSerialStart(c, u) /\ UNCHANGED <<memVars, sockVars, cliVars, hookVars>>
    \/ RpcSteps
    \/ \E u \in Users, r \in RoomIds :
          SqlPartnersLeave(u, r) /\ SqlLeaveHead(u, r) /\ UNCHANGED <<memVars, sockVars, cliVars, hookVars>>
    \/ \E u \in Users, r \in RoomIds, t \in Texts :
          InFlight = {} /\ SqlPostMessage(u, r, t) /\ UNCHANGED <<memVars, sockVars, cliVars, hookVars>>

SpecSqlLeavesHead == Init /\ [][NextSqlLeavesHead]_vars

\* one endpoint of a video call, its partner's envelopes and the server between
NextRtc ==
    \/ \E impl \in {"types/chat.ts", "part_001", "hooks/useWebRTC.ts"} :
          RtcMount(impl) /\ UNCHANGED <<memVars, sqlVars, sockVars, hookVars>>
    \/ RtcStartVideoCall /\ UNCHANGED <<memVars, sqlVars, sockVars, hookVars>>
    \/ RtcStopVideoCall /\ UNCHANGED <<memVars, sqlVars, sockVars, hookVars>>
    \/ RtcIceCandidate /\ UNCHANGED <<memVars, sqlVars, sockVars, hookVars>>
    \/ \E type \in SignalTypes : RtcSend(type) /\ UNCHANGED <<memVars, sqlVars, sockVars, hookVars>>
    \/ RtcRelay /\ UNCHANGED <<memVars, sqlVars, sockVars, hookVars>>
    \/ RtcDeliver /\ UNCHANGED <<memVars, sqlVars, sockVars, hookVars>>
    \/ RtcRedispatch /\ UNCHANGED <<memVars, sqlVars, sockVars, hookVars>>

SpecRtc == Init /\ [][NextRtc]_vars

\* the chat window of one client
NextClient ==
    \/ \E id \in ServerIds : ClientDeliver(id) /\ UNCHANGED <<memVars, sqlVars, sockVars, hookVars>>
    \/ \E id \in LocalIds : ClientLocal(id) /\ UNCHANGED <<memVars, sqlVars, sockVars, hookVars>>
    \/ ClientTick /\ UNCHANGED <<memVars, sqlVars, sockVars, hookVars>>

SpecClient == Init /\ [][NextClient]_vars

\* the socket client: the user's buttons, the timer and the server's events
NextChatManager ==
    \/ CmStart /\ UNCHANGED <<memVars, sqlVars, sockVars, cliVars, useChat>>
    \/ CmEnd /\ UNCHANGED <<memVars, sqlVars, sockVars, cliVars, useChat>>
    \/ CmNext /\ UNCHANGED <<memVars, sqlVars, sockVars, cliVars, useChat>>
    \/ CmTimer /\ UNCHANGED <<memVars, sqlVars, sockVars, cliVars, useChat>>
    \/ CmOnWaiting /\ UNCHANGED <<memVars, sqlVars, sockVars, cliVars, useChat>>
    \/ \E p \in Socks : CmOnMatched(p) /\ UNCHANGED <<memVars, sqlVars, sockVars, cliVars, useChat>>
    \/ CmOnPartnerDisconnected /\ UNCHANGED <<memVars, sqlVars, sockVars, cliVars, useChat>>
    \/ CmOnServerError /\ UNCHANGED <<memVars, sqlVars, sockVars, cliVars, useChat>>
    \/ CmOnDisconnect /\ UNCHANGED <<memVars, sqlVars, sockVars, cliVars, useChat>>

SpecChatManager == Init /\ [][NextChatManager]_vars

\* a timer that was set fires
SpecChatManagerFair ==
    SpecChatManager /\ WF_vars(CmTimer /\ UNCHANGED <<memVars, sqlVars, sockVars, cliVars, useChat>>)

\* the Supabase client: the user's buttons, the API responses (chatting with
\* the partner's id, searching without one, as the routes answer) and the
\* realtime callbacks
NextUseChat ==
    \/ UcStartChat /\ UNCHANGED <<memVars, sqlVars, sockVars, cliVars, chatManager, cmLast>>
    \/ \E r \in RoomIds, p \in {NoUser} \cup Users, ok \in BOOLEAN :
          UcStartResponse(r, IF p = NoUser THEN "searching" ELSE "chatting", p, ok)
          /\ UNCHANGED <<memVars, sqlVars, sockVars, cliVars, chatManager, cmLast>>
    \/ UcNextChat /\ UNCHANGED <<memVars, sqlVars, sockVars, cliVars, chatManager, cmLast>>
    \/ \E r \in RoomIds, p \in {NoUser} \cup Users, ok \in BOOLEAN :
          UcNextResponse(r, IF p = NoUser THEN "searching" ELSE "chatting", p, ok)
          /\ UNCHANGED <<memVars, sqlVars, sockVars, cliVars, chatManager, cmLast>>
    \/ UcEndChat /\ UNCHANGED <<memVars, sqlVars, sockVars, cliVars, chatManager, cmLast>>
    \/ \E e \in {"INSERT", "DELETE"} :
          UcParticipantChange(e)
          /\ UNCHANGED <<memVars, sqlVars, sockVars, cliVars, chatManager, cmLast>>
    \/ \E l \in useChat.listeners, count \in 0..2, error \in BOOLEAN :
          UcParticipantCount(l, count, error)
          /\ UNCHANGED <<memVars, sqlVars, sockVars, cliVars, chatManager, cmLast>>
    \/ UcSubscriptionError /\ UNCHANGED <<memVars, sqlVars, sockVars, cliVars, chatManager, cmLast>>
    \/ UcCleanupSubscriptions /\ UNCHANGED <<memVars, sqlVars, sockVars, cliVars, chatManager, cmLast>>

SpecUseChat == Init /\ [][NextUseChat]_vars

\* ================================================================ claims
\* the number of participant rows user u holds over all rooms
SqlEntries(u) == SumOver([r \in RoomIds |-> chat_participants[r][u]], RoomIds)

\* C1: for start calls by distinct users, under every interleaving of the
\* steps of find_available_room, no room ever has more than two participant
\* rows, and once every call has been answered each caller holds exactly one.
C1_ExactlyOncePlacement ==
    /\ \A r \in RoomIds : SqlCount(chat_participants, r) <= 2
    /\ InFlight = {} =>
          \A u \in Users : SqlEntries(u) <= 1
    /\ (InFlight = {} /\ sqlResp.op = "start") => SqlEntries(sqlResp.user) = 1

\* C2: no start is answered with the caller as its own partner, and no room
\* holds the same user as both of its two participants.
C2_NoSelfPairing ==
    /\ (sqlResp.op = "start" /\ sqlResp.code = 200) => sqlResp.partnerId # sqlResp.user
    /\ \A r \in RoomIds, u \in Users :
          ~(SqlCount(chat_participants, r) = 2 /\ chat_participants[r][u] = 2)

\* C3: a user holds at most one participant row over all rooms that exist.
C3_AtMostOneEntry == \A u \in Users : SqlEntries(u) <= 1

\* C4: in the in-memory registry every room of activeRooms has exactly two
\* distinct participants, every room of waitingRooms has fewer than two, and
\* no room id is in both lists.
C4_RegistryShape ==
    /\ \A i \in DOMAIN activeRooms :
          /\ Len(activeRooms[i].participants) = 2
          /\ activeRooms[i].participants[1] # activeRooms[i].participants[2]
    /\ \A i \in DOMAIN waitingRooms : Len(waitingRooms[i].participants) < 2
    /\ \A i \in DOMAIN activeRooms, j \in DOMAIN waitingRooms :
          activeRooms[i].id # waitingRooms[j].id

\* a leave has moved a room back from activeRooms to waitingRooms
C4_Witness ==
    /\ memResp.op = "leave" /\ memResp.status = "left"
    /\ \E i \in DOMAIN waitingRooms :
          /\ waitingRooms[i].id = memResp.roomId
          /\ Len(waitingRooms[i].participants) = 1
          /\ waitingRooms[i].id \in DOMAIN messages
          /\ \E k \in DOMAIN messages[waitingRooms[i].id] :
                messages[waitingRooms[i].id][k].text = "partner-left"

\* the two last responses answer U1's start, made alone while no session was
\* waiting, and then a different user U2's start, made alone
C5_Scenario ==
    /\ sqlPrev.op = "start" /\ sqlPrev.alone /\ sqlPrev.noWaiting
    /\ sqlResp.op = "start" /\ sqlResp.alone
    /\ sqlPrev.user # sqlResp.user

C6_ThreeConcurrentStarts ==
    (Cardinality({c \in Calls : calls[c].op = "start" /\ calls[c].pc = "respond"}) = 3
        /\ \A u \in Users : SqlEntries(u) = (IF \E c \in Calls : calls[c].user = u THEN 1 ELSE 0))
    => /\ Cardinality({r \in chat_rooms : SqlCount(chat_participants, r) = 2}) = 1
       /\ Cardinality({r \in chat_rooms : SqlCount(chat_participants, r) = 1}) = 1
       /\ Cardinality(chat_rooms) = 2

\* C7: a start by a user who already is in a room is answered with that room
\* and changes no participant row.
C7_RepeatedStartIdempotent ==
    (sqlResp.op = "start" /\ sqlResp.alone /\ sqlResp.wasIn # {}) =>
        /\ sqlResp.code = 200
        /\ sqlResp.roomId \in sqlResp.wasIn
        /\ sqlResp.sameParts

\* C8: a start whose participant INSERT failed is answered with a new waiting
\* room, never with an error.
C8_ConflictNeverSurfaces ==
    (sqlResp.op = "start" /\ sqlResp.failed) =>
        /\ sqlResp.code = 200
        /\ sqlResp.status = "searching"
        /\ sqlResp.partnerId = NoUser
        /\ sqlResp.roomId \in chat_rooms
        /\ chat_participants[sqlResp.roomId][sqlResp.user] > 0

\* C9: when an occupant's leave has been answered and no other request is in
\* flight, the leaver holds no row of the room, a room with an occupant left
\* still exists, and a room with none left is gone with all of its messages.
C9_CascadeOnEmpty ==
    (InFlight = {} /\ sqlResp.op = "leave" /\ sqlResp.alone
        /\ sqlResp.roomId \in sqlResp.wasIn) =>
        LET r == sqlResp.roomId
        IN /\ chat_participants[r][sqlResp.user] = 0
           /\ SqlCount(chat_participants, r) >= 1 => r \in chat_rooms
           /\ SqlCount(chat_participants, r) = 0 =>
                 (r \notin chat_rooms /\ chat_messages[r] = <<>>)

MemEnded ==
    {r \in 1..(memNextId - 1) :
        MemRoomIndex(waitingRooms, r) = 0 /\ MemRoomIndex(activeRooms, r) = 0}

\* C11: ended is terminal.  Once the last participant of a room has left, no
\* step of start, next, leave or message puts the room back into a list, stores
\* a message under its id or answers a start or a next with its id.
C11_EndedIsTerminal ==
    [][\A r \in MemEnded :
          /\ r \in MemEnded'
          /\ r \notin DOMAIN messages'
          /\ (memResp' # memResp /\ memResp'.op \in {"start", "next"})
                => memResp'.roomId # r]_vars

\* a former room has been posted to and the post was refused, and a later
\* room exists beside it
C11_Witness ==
    /\ memResp.op = "message" /\ memResp.code = 403
    /\ memResp.roomId \in MemEnded
    /\ Len(waitingRooms) + Len(activeRooms) > 0

\* C12: a next(u, S) whose first step removed u from room S is never answered
\* with room S again: the user it took out of S is not put back into S.
C12_NextNeverRejoins ==
    (memResp.op = "next" /\ memResp.from # NoRoom) => memResp.roomId # memResp.from

\* userId is one of the participants of a room with id roomId of either list
MemOccupies(userId, roomId) ==
    \/ \E i \in DOMAIN waitingRooms :
          waitingRooms[i].id = roomId /\ Includes(waitingRooms[i].participants, userId)
    \/ \E i \in DOMAIN activeRooms :
          activeRooms[i].id = roomId /\ Includes(activeRooms[i].participants, userId)

\* C14: a post with a text that passes validation, made for a room by a user
\* who is not one of its participants at that moment (the room may have ended,
\* or the user may have left it), is answered 403 and leaves every message array
\* as it was.
C14_NonOccupantPostDenied ==
    [][(/\ memResp'.op = "message"
        /\ memResp'.code # 400
        /\ UNCHANGED <<waitingRooms, activeRooms, memPending>>
        /\ ~MemOccupies(memResp'.user, memResp'.roomId))
       => (memResp'.code = 403 /\ messages' = messages)]_vars

\* a post to a room that is in a list, by a user who is not in it, was refused
C14_Witness ==
    /\ memResp.op = "message" /\ memResp.code = 403
    /\ (MemRoomIndex(activeRooms, memResp.roomId) # 0
          \/ MemRoomIndex(waitingRooms, memResp.roomId) # 0)
    /\ ~MemOccupies(memResp.user, memResp.roomId)

\* C13: when a socket that is paired leaves or disconnects, the partner it
\* leaves behind is waiting again (it is in WAITING_LIST, where the next
\* connection finds it).
C13_PartnerWaitsAgain ==
    [][\A s, p \in Socks :
          (/\ sockPc[s] = "ready"
           /\ userPartners[s] = p /\ userPartners[p] = s
           /\ sockAlive[p]
           /\ sockLast'.op \in {"leave", "disconnect"} /\ sockLast'.sock = s
           /\ userPartners'[s] = NoSock)
          => (userPartners'[p] = NoSock /\ Includes(WAITING_LIST', p))]_vars

\* C15: a message whose text is empty, only whitespace or longer than the
\* limit is rejected before anything is stored: no message that a user posted
\* is stored with such a text.
C15_InvalidTextRejected ==
    \A k \in DOMAIN messages : \A i \in DOMAIN messages[k] :
        ~messages[k][i].isSystem =>
            /\ Len(Trim(messages[k][i].text)) > 0
            /\ Len(messages[k][i].text) <= MaxMessageLength

\* C16: a message that the server accepts from a paired socket is emitted to
\* the partner's socket, with the trimmed text, and to no other socket: never
\* to the sender's own socket and never to a third one.
C16_DeliveredToPartnerOnly ==
    sockLast.op = "message" =>
        LET s == sockLast.sock
            valid == Len(Trim(sockLast.text)) > 0 /\ Len(sockLast.text) <= MaxMessageLength
        IN /\ \A e \in sockOut :
                 /\ e.event = "message" /\ e.from = s
                 /\ e.to # s /\ e.to = userPartners[s]
                 /\ e.text = Trim(sockLast.text)
           /\ (valid /\ sockPc[s] = "ready" /\ userPartners[s] # NoSock)
                 => \E e \in sockOut : e.to = userPartners[s]

\* a paired socket has sent a text with surrounding whitespace or without, and
\* the partner, whose link points back, was sent it
C16_Witness ==
    /\ sockLast.op = "message"
    /\ userPartners[sockLast.sock] # NoSock
    /\ userPartners[userPartners[sockLast.sock]] = sockLast.sock
    /\ sockAlive[userPartners[sockLast.sock]]
    /\ \E e \in sockOut : e.to = userPartners[sockLast.sock] /\ e.text = <<"a">>

\* C17: a signaling envelope that socket A sends, addressed to B, is emitted
\* to B's socket only: never to A's own socket, and to no socket at all when B
\* is not A's partner.
C17_SignalToTargetOnly ==
    sockLast.op = "signal" =>
        \A e \in sockOut : e.to = sockLast.target /\ e.to # sockLast.sock

\* the handler of 'connection' has run to its end for socket s and no
\* cleanupUser for it is waiting on Redis
SockSettled(s) == sockPc[s] = "ready" /\ ~Pending(s, "lRem")

\* C18: a transport-level disconnect does what a leave does, whenever it
\* comes: once the connection's handlers have run, a connection whose transport
\* has closed is not in the waiting list, holds no link to a partner, and no
\* socket holds a link to it.
C18_DisconnectCleansUp ==
    \A s \in Socks :
        (SockSettled(s) /\ ~sockAlive[s]) =>
            /\ ~Includes(WAITING_LIST, s)
            /\ userPartners[s] = NoSock
            /\ \A t \in Socks : userPartners[t] # s

\* C19: when no handler is in progress, no open connection is paired with a
\* connection that has gone away, and the connection the next pairing request
\* would pop from the waiting list has not gone away.
C19_NoOrphanedSession ==
    (redisQueue = <<>>) =>
        /\ \A t \in Socks :
              (sockAlive[t] /\ userPartners[t] # NoSock) => sockAlive[userPartners[t]]
        /\ WAITING_LIST # <<>> => sockAlive[Head(WAITING_LIST)]

\* C20: a socket that waited is sent 'matched' when another connection is
\* paired with it, and whenever a socket leaves or disconnects while an open
\* connection is linked to it as its partner, that connection is eventually
\* sent 'partner-disconnected' (unless it leaves or goes away itself first).
C20_PartnerNotified ==
    /\ [](sockLast.op = "matched" =>
            \E e \in sockOut : e.event = "matched" /\ e.to = sockLast.target)
    /\ \A a, b \in Socks :
          (/\ sockLast.op \in {"leave", "disconnect"} /\ sockLast.sock = b
           /\ userPartners[a] = b /\ sockAlive[a])
          ~> (\/ \E e \in sockOut : e.event = "partner-disconnected" /\ e.to = a
              \/ userPartners[a] = NoSock
              \/ ~sockAlive[a])

\* C21: a start that is answered with an error has created nothing that
\* remains: when it ran with no other request in flight, the rooms and the
\* participant rows are what they were before the call, so the caller occupies
\* no room because of it.
C21_FailedStartLeavesNothing ==
    (sqlResp.op = "start" /\ sqlResp.code = 500 /\ sqlResp.alone) => sqlResp.sameParts

\* the rooms and participant rows after leave(room_id, u) has run alone on the
\* rooms and rows occ: the row is deleted, and a room left without rows is
\* deleted too
SqlAfterLeave(occ, room_id, u) ==
    IF room_id = NoRoom THEN occ
    ELSE LET parts == [occ[2] EXCEPT ![room_id][u] = 0]
         IN IF SqlCount(parts, room_id) = 0
            THEN <<occ[1] \ {room_id}, [parts EXCEPT ![room_id] = [w \in Users |-> 0]]>>
            ELSE <<occ[1], parts>>

\* what start(u) can make of the rooms and rows occ when it runs alone: it
\* joins one of the rooms that hold exactly one row, of another user, or, when
\* there is none, creates a room with a fresh id and waits
SqlAfterStart(occ, u) ==
    LET cand == {x \in RoomIds \X Users :
                    /\ x[1] \in occ[1]
                    /\ occ[2][x[1]][x[2]] > 0
                    /\ SqlCount(occ[2], x[1]) = 1
                    /\ x[2] # u}
    IN IF cand # {}
       THEN {[occ |-> <<occ[1], [occ[2] EXCEPT ![x[1]][u] = @ + 1]>>,
              roomId |-> x[1], partnerId |-> x[2], status |-> "chatting"] : x \in cand}
       ELSE {[occ |-> <<occ[1] \cup {n}, [occ[2] EXCEPT ![n][u] = @ + 1]>>,
              roomId |-> n, partnerId |-> NoUser, status |-> "searching"] :
                n \in RoomIds \ occ[1]}

\* C22: a next(u, S) that ran with no other request in flight leaves the rooms
\* and participant rows, and returns the result, that leave(S, u) followed by
\* start(u) can leave and return from the same rooms and rows; without a
\* current room that is what start(u) alone can leave and return.
C22_NextIsLeaveThenStart ==
    (sqlResp.op = "next" /\ sqlResp.code = 200 /\ InFlight = {}) =>
        \E o \in SqlAfterStart(SqlAfterLeave(sqlResp.pre, sqlResp.from, sqlResp.user),
                                sqlResp.user) :
            /\ o.occ = SqlOccupancy
            /\ o.roomId = sqlResp.roomId
            /\ o.partnerId = sqlResp.partnerId
            /\ o.status = sqlResp.status

\* the participant rows of a room that holds one row of each user of S and
\* no other row
SqlRowsOf(S) == [w \in Users |-> IF w \in S THEN 1 ELSE 0]

\* C23: a start or next is answered "chatting" exactly when its partnerId is
\* not null and "searching" exactly when it is null; and when the pairing
\* call fixes its result, the returned room holds exactly the caller and the
\* partner (two distinct occupants), or exactly the caller when there is no
\* partner.
C23_ResponseMatchesOccupancy ==
    [][/\ (sqlResp' # sqlResp /\ sqlResp'.op \in {"start", "next"} /\ sqlResp'.code = 200)
            => /\ sqlResp'.status = "chatting" <=> sqlResp'.partnerId # NoUser
               /\ sqlResp'.status = "searching" <=> sqlResp'.partnerId = NoUser
       /\ \A c \in Calls :
             (/\ calls[c].pc = "locked" /\ calls'[c].pc = "respond"
              /\ calls'[c].res.room_id # NoRoom)
             => LET res == calls'[c].res
                IN /\ res.other_user_id # calls[c].user
                   /\ chat_participants'[res.room_id] =
                         SqlRowsOf({calls[c].user, res.other_user_id} \ {NoUser})]_vars

\* C24: a signaling envelope whose type is not one of the four known types is
\* dropped: the server does not forward it to the target, and no endpoint
\* raises an error for it
C24_UnknownTypeDropped ==
    /\ \A i \in DOMAIN rtcInbox : rtcInbox[i].type \in KnownTypes
    /\ \A i \in DOMAIN rtcSeen : rtcSeen[i].type \in KnownTypes
    /\ rtcPeer.toast \in KnownTypes \cup {""}

C29_EarlyCandidateQueuedThenApplied ==
    ~rtcPeer.cleaned =>
        /\ \A i \in DOMAIN rtcSeen :
              rtcSeen[i].type = "ice-candidate" =>
                 LET queued == {j \in DOMAIN rtcPeer.pendingCandidates :
                                   rtcPeer.pendingCandidates[j] = rtcSeen[i].n}
                     applied == {j \in DOMAIN rtcPeer.added : rtcPeer.added[j] = rtcSeen[i].n}
                 IN  IF rtcPeer.remoteDescription
                     THEN Cardinality(queued) = 0 /\ Cardinality(applied) = 1
                     ELSE Cardinality(queued) = 1 /\ Cardinality(applied) = 0
        /\ rtcPeer.remoteDescription => rtcPeer.pendingCandidates = <<>>

\* C26: a start that pairs the caller with a waiting occupant adds a system
\* message (is_system true, the reserved system sender) announcing the join,
\* and the message is stored in the session where the occupant who was
\* waiting can read it
C26_JoinMessageStored ==
    (sqlResp.op = "start" /\ sqlResp.code = 200 /\ sqlResp.partnerId # NoUser) =>
        \E i \in DOMAIN chat_messages[sqlResp.roomId] :
            LET row == chat_messages[sqlResp.roomId][i]
            IN  row.is_system /\ row.sender_id = SystemSender /\ row.message = "joined"

\* C27: a pairing request never waits for another request's claim in
\* progress: its locking step can always be taken, a candidate whose room is
\* locked by a concurrent claimer is skipped, and the request goes on with
\* another candidate of its snapshot or, when none is free, with no candidate
\* (and then creates a session)
C27_LockedCandidateSkipped ==
    [][\A c \in Calls :
         LET held == {calls[d].found[1] :
                        d \in {e \in Calls \ {c} : calls[e].pc = "locked"
                                                      /\ calls[e].found # NoRow}}
             found == calls'[c].found
         IN  /\ calls[c].pc = "lockrows" => ENABLED RpcLockRows(c)
             /\ (calls[c].pc = "lockrows" /\ calls'[c].pc = "locked") =>
                   /\ found # NoRow => found \in calls[c].cand /\ found[1] \notin held
                   /\ found = NoRow => \A x \in calls[c].cand : x[1] \in held
             /\ (calls[c].pc = "locked" /\ calls[c].found = NoRow /\ calls'[c].pc = "respond") =>
                   calls'[c].res.room_id \notin chat_rooms
    ]_vars

\* a request has locked a waiting user's row and has not committed; a second
\* request, for which that row qualifies, has passed its locking step with no
\* row
C27_Witness ==
    \E c, d \in Calls :
        /\ c # d
        /\ calls[d].pc = "locked" /\ calls[d].found # NoRow
        /\ calls[c].pc = "locked" /\ calls[c].found = NoRow
        /\ calls[d].found[2] # calls[c].user
        /\ calls[d].found \in SqlCandidates(calls[c].user)

\* C28: when both occupants of an active session leave, one after the other
\* or both at once, then under every interleaving of the two calls' steps the
\* session ends with no occupant, no message and no room record: once the
\* calls are over no room without an occupant is left behind
C28_BothLeaveRoomGone ==
    InFlight = {} =>
        \A r \in RoomIds :
            SqlCount(chat_participants, r) = 0 =>
                r \notin chat_rooms /\ chat_messages[r] = <<>>

\* C30: after any sequence of deliveries to a client, duplicated and
\* out-of-order ones included, the partner's messages in the client's list are
\* in non-decreasing order of their creation timestamps, and no two entries
\* of the list have the same id
C30_ListSortedNoDuplicates ==
    /\ \A i, j \in DOMAIN clientMessages :
          (i < j /\ clientMessages[i].id \in ServerIds /\ clientMessages[j].id \in ServerIds) =>
             ChatMessageRow(clientMessages[i].id).timestamp
                <= ChatMessageRow(clientMessages[j].id).timestamp
    /\ \A i, j \in DOMAIN clientMessages :
          clientMessages[i].id = clientMessages[j].id => i = j

\* what the in-memory registry holds of the session with id o: the list it is
\* in, its participants and whether it has a message array
MemSession(o) ==
    LET wi == MemRoomIndex(waitingRooms, o)
        ai == MemRoomIndex(activeRooms, o)
    IN [state |-> IF wi # 0 THEN "waiting" ELSE IF ai # 0 THEN "active" ELSE "none",
        participants |-> IF wi # 0 THEN waitingRooms[wi].participants
                         ELSE IF ai # 0 THEN activeRooms[ai].participants
                         ELSE <<>>,
        stored |-> o \in DOMAIN messages]

\* the message arrays a and b hold the same messages in the same order
MemSameMessages(a, b) ==
    /\ Len(a) = Len(b)
    /\ \A i \in DOMAIN a :
          /\ a[i].isSystem = b[i].isSystem
          /\ a[i].senderId = b[i].senderId
          /\ a[i].isSystem = b[i].isSystem => a[i].text = b[i].text

\* C31: a leave of session S (the leave route, or the first half of next) and
\* a post to session S leave the occupants, the lifecycle state and the
\* messages of every session other than S as they were.
C31_OtherSessionsUntouched ==
    [][LET began == memPending' \ memPending
           S == IF began # {} THEN (CHOOSE p \in began : TRUE).from ELSE memResp'.roomId
       IN (\/ began # {}
           \/ /\ memResp'.op \in {"leave", "message"}
              /\ UNCHANGED <<memPending, memNextId>>)
          => \A o \in MemRoomIds \ {S} :
                /\ MemSession(o)' = MemSession(o)
                /\ o \in DOMAIN messages => MemSameMessages(messages[o], messages'[o])]_vars

\* the last participant of a session has left it and the session has ended,
\* while another session is active and holds messages
C31_Witness ==
    /\ memResp.op = "leave" /\ memResp.status = "left"
    /\ memResp.roomId \in MemEnded
    /\ \E o \in MemRoomIds \ {memResp.roomId} :
          /\ MemSession(o).state = "active"
          /\ o \in DOMAIN messages /\ Len(messages[o]) >= 2

\* C32: the partner map of the socket server is symmetric and irreflexive,
\* whatever handlers and cleanupUser calls are suspended on Redis: a socket
\* that the map gives a partner is not its own partner, and the map gives the
\* partner that socket back.
C32_PartnersSymmetric ==
    \A a \in Socks :
        userPartners[a] # NoSock =>
            /\ userPartners[a] # a
            /\ userPartners[userPartners[a]] = a

\* C33: no connection stays matched to a partner that has gone.  Whenever the
\* transport of socket p has closed, at whatever point of its connection
\* handler or of a concurrent match, and an open connection q is linked to p,
\* then q is eventually sent 'partner-disconnected' (unless q's own clean-up
\* drops the link, or q goes away itself first).
C33_GonePartnerNotified ==
    \A p, q \in Socks :
        (/\ sockPc[p] # "new" /\ ~sockAlive[p]
         /\ userPartners[q] = p /\ sockAlive[q])
        ~> (\/ \E e \in sockOut : e.event = "partner-disconnected" /\ e.to = q
            \/ userPartners[q] = NoSock
            \/ ~sockAlive[q])

\* C34: when the transport of the socket is lost, without the client having
\* asked for it, while the status is connecting, waiting or chatting, the
\* status becomes error.
C34_LostConnectionIsError ==
    (cmLast.op = "disconnect" /\ cmLast.was \in ActiveStatus) => chatManager.status = "error"

\* C35: Next pressed while chatting leads to a new connection: once the old
\* socket is disconnected and the timer has fired, a new socket exists and the
\* status is connecting.
C35_NextReconnects ==
    (cmLast.op = "next" /\ cmLast.was = "chatting")
        ~> (chatManager.status = "connecting" /\ chatManager.socketRef # 0)

\* C38: partnerId is non-null only while the status is chatting, after any
\* sequence of connect, disconnect, timers and the events the server sends to
\* a connection.
C38_PartnerOnlyWhileChatting ==
    chatManager.partnerId # NoSock => chatManager.status = "chatting"

\* the third socket of the client has been matched
C38_Witness ==
    /\ cmLast.op = "matched"
    /\ chatManager.partnerId # NoSock
    /\ chatManager.created = MaxConnects

\* C36: in the hook that knows 'bye' (types/chat.ts), the endpoint that is
\* handed a 'bye' ends its call locally and sends nothing back, and whenever
\* it sends a 'bye' itself it closes the connection it had in the same step, so
\* one call makes it send at most one 'bye'.
C36_ByeEndsWithoutReply ==
    [][rtcImpl = "types/chat.ts" =>
          /\ (Len(rtcSeen') = Len(rtcSeen) + 1 /\ rtcSeen'[Len(rtcSeen')].type = "bye")
                => /\ rtcPeer'.out = {}
                   /\ ~rtcPeer'.peerConnection /\ ~rtcPeer'.localStream
          /\ (rtcPeer' # rtcPeer /\ "bye" \in rtcPeer'.out)
                => (rtcPeer.peerConnection /\ ~rtcPeer'.peerConnection)]_vars

\* an endpoint that answered an offer has been handed the partner's 'bye'
C36_Witness ==
    /\ rtcImpl = "types/chat.ts"
    /\ Len(rtcSeen) = 2
    /\ rtcSeen[1].type = "video-offer" /\ rtcSeen[2].type = "bye"
    /\ rtcPeer.cleaned /\ rtcPeer.toast = "" /\ rtcPeer.out = {}

C39_StatusMatchesRoom ==
    /\ useChat.status = "chatting" => useChat.roomId # NoRoom
    /\ useChat.status \in {"idle", "disconnected"} => useChat.roomId = NoRoom
====
